---- MODULE Spec2Model ----
(***************************************************************************)
(* A model of the Lors tree-walk interpreter (Lox in Rust): the chain of   *)
(* lexical environments, the resolver that fills the locals table, the     *)
(* statement and expression visitors and the driver loop of main.rs.       *)
(*                                                                         *)
(* Environment frames live in a heap (a sequence of frames); a frame id    *)
(* plays the part of an Rc<RefCell<Environment>>: copying an id aliases    *)
(* the frame.  Frame id 0 is Option::None.                                 *)
(***************************************************************************)
EXTENDS Integers, Sequences, FiniteSets, TLC

VARIABLES
    interp,     \* the Interpreter: heap of frames, environments, locals, counter
    res,        \* the value returned by the last environment operation
    panicked,   \* TRUE once an unwrap()/panic! aborted the process
    ops,        \* history of the environment operations performed so far
    prog,       \* the program being run: the fragments it is made of
    pc,         \* where run() is: "resolve", "interpret" or "done"
    idx,        \* apply_visitor's position in the list of statements
    resolver,   \* the Resolver: scopes, current_function, current_class
    clean,      \* apply_visitor's flag
    vm          \* the bytecode VM with the Compiler it ran

driver == <<prog, pc, idx, resolver, clean, vm>>

vars == <<interp, res, panicked, ops, prog, pc, idx, resolver, clean, vm>>

----------------------------------------------------------------------------
(* Bounds of the model.                                                    *)

MaxEnvOps == 5

\* the longest program, in fragments
MaxFragments == 2

Names == {"a", "b", "c"}

----------------------------------------------------------------------------
(* Values (Expr in evaluated position).                                    *)

Nil == [k |-> "Nil"]
BoolV(b) == [k |-> "Bool", b |-> b]
Num(n) == [k |-> "Num", n |-> n]
Str(s) == [k |-> "Str", s |-> s]

EnvValues == {Num(1), Num(2)}

\* Result<Option<Expr>, Error>
OkSome(v) == [r |-> "Ok", some |-> TRUE, v |-> v, msg |-> ""]
OkNone == [r |-> "Ok", some |-> FALSE, v |-> Nil, msg |-> ""]
Err(m) == [r |-> "Err", some |-> FALSE, v |-> Nil, msg |-> m]

----------------------------------------------------------------------------
(* Environment and Interpreter construction.                               *)

EmptyTable == [n \in {} |-> Nil]

\* Environment::new_with_enclosing; tag is a ghost naming the construct
\* that created the frame, origin a ghost naming the allocation the frame
\* comes from (its own id once it is in the heap).
NewWithEnclosing(enclosing, tag) ==
    [symbol_table |-> EmptyTable, enclosing |-> enclosing, tag |-> tag,
     origin |-> 0]

\* Rc::new(RefCell::new(env)): the frame enters the heap
HeapPush(st, env) ==
    [st EXCEPT !.frames = Append(@, [env EXCEPT !.origin = Len(st.frames) + 1])]

GlobalTag == [p |-> <<>>, k |-> "global"]
ApiTag == [p |-> <<>>, k |-> "block"]

\* Interpreter::new: one root frame, no locals, counter 1.  stdout is the
\* text written so far; bind and ghost are history: the scope each resolved
\* occurrence was found in, and what the visitors observed while running.
InterpreterNew ==
    [frames |-> <<[NewWithEnclosing(0, GlobalTag) EXCEPT !.origin = 1]>>,
     environments |-> 1,
     locals |-> EmptyTable,
     counter |-> 1,
     stdout |-> <<>>,
     bind |-> EmptyTable,
     ghost |-> [blocks |-> {}, globals |-> {}, reads |-> {},
                last |-> EmptyTable, top |-> 0, calls |-> {},
                sets |-> {}, supers |-> {}, gets |-> {},
                logicals |-> {}, equalities |-> {},
                whiles |-> EmptyTable]]

Put(f, key, value) ==
    [x \in (DOMAIN f) \cup {key} |-> IF x = key THEN value ELSE f[x]]

\* Environment::define on frame f of the heap.  ghost.last remembers, for the
\* allocation the frame comes from, the value last stored under the name and
\* the frame that was current when it was stored.
Define(st, f, name, value) ==
    [st EXCEPT !.frames[f].symbol_table = Put(@, name, value),
               !.ghost.last = Put(@, <<st.frames[f].origin, name>>,
                                  [v |-> value,
                                   via |-> st.frames[st.environments].tag])]

ContainsKey(st, f, name) == name \in DOMAIN st.frames[f].symbol_table

Retrieve(st, f, name) == st.frames[f].symbol_table[name]

\* The n-th enclosing frame of frame f (0 when the chain is shorter).
RECURSIVE Ancestor(_, _, _)
Ancestor(st, f, n) ==
    IF f = 0 THEN 0
    ELSE IF n = 0 THEN f
    ELSE Ancestor(st, st.frames[f].enclosing, n - 1)

\* Some frame of the current chain binds the name.
RECURSIVE BoundInChain(_, _, _)
BoundInChain(st, f, name) ==
    /\ f # 0
    /\ \/ ContainsKey(st, f, name)
       \/ BoundInChain(st, st.frames[f].enclosing, name)

\* EnvironmentIterator::next with self.pos = p.
IteratorNext(st, p) == Ancestor(st, st.environments, p)

\* Interpreter::create_environment: the frame is allocated in the heap and
\* its id returned by AllocId.
AllocId(st) == Len(st.frames) + 1

CreateEnvironment(st, context, tag) ==
    LET enclosing == IF context # 0 THEN context ELSE st.environments
    IN HeapPush(st, NewWithEnclosing(enclosing, tag))

NewEnvironmentNoCount(st, context, tag) ==
    LET id == AllocId(st)
    IN [CreateEnvironment(st, context, tag) EXCEPT !.environments = id]

\* Interpreter::new_environment
NewEnvironment(st, context, tag) ==
    LET id == AllocId(st)
    IN [CreateEnvironment(st, context, tag) EXCEPT
            !.environments = id, !.counter = @ + 1]

\* drop_environment unwraps the enclosing frame: it panics on the root.
DropPanics(st) == st.frames[st.environments].enclosing = 0

\* Interpreter::drop_environment (when it does not panic)
DropEnvironment(st) ==
    [st EXCEPT !.environments = st.frames[st.environments].enclosing,
               !.counter = @ - 1]

\* Interpreter::define_symbol
DefineSymbol(st, name, value) == Define(st, st.environments, name, value)

\* A get_symbol_at that keeps looking in the frames it passes.
RECURSIVE GetSymbolAtWalk(_, _, _, _)
GetSymbolAtWalk(st, pos, name, it) ==
    LET env == IteratorNext(st, it)
    IN IF env = 0 THEN Err("Undefined variable")
       ELSE IF ContainsKey(st, env, name)
            THEN OkSome(Retrieve(st, env, name))
       ELSE IF pos - 1 < 0 THEN Err("Undefined variable")
       ELSE GetSymbolAtWalk(st, pos - 1, name, it + 1)

\* The loop of get_symbol_at: it is the iterator's it-th frame, pos counts down.
RECURSIVE GetSymbolAtLoop(_, _, _, _)
GetSymbolAtLoop(st, pos, name, it) ==
    LET env == IteratorNext(st, it)
    IN IF env = 0 THEN Err("Undefined variable")
       ELSE IF pos = 0 /\ ContainsKey(st, env, name)
            THEN OkSome(Retrieve(st, env, name))
       ELSE IF pos - 1 < 0 THEN Err("Undefined variable")
       ELSE GetSymbolAtLoop(st, pos - 1, name, it + 1)

\* Interpreter::get_symbol_at
GetSymbolAt(st, pos, name) ==
    IF pos < 0 THEN Err("Invalid position")
    ELSE GetSymbolAtLoop(st, pos, name, 0)

\* Interpreter::assign_symbol_at: define in the pos-th frame, nothing when
\* the chain is shorter.
AssignSymbolAt(st, pos, name, value) ==
    LET env == IteratorNext(st, pos)
    IN IF env = 0 THEN st ELSE Define(st, env, name, value)

\* EnvironmentIterator::last: at most counter steps up the chain.
RECURSIVE LastLoop(_, _, _)
LastLoop(st, env, n) ==
    IF n = 0 THEN env
    ELSE LET up == st.frames[env].enclosing
         IN IF st.frames[up].enclosing = 0 THEN up
            ELSE LastLoop(st, up, n - 1)

Last(st) ==
    IF st.frames[st.environments].enclosing = 0 THEN st.environments
    ELSE LastLoop(st, st.environments, st.counter)

\* Interpreter::globals
Globals(st) == Last(st)

----------------------------------------------------------------------------
(* The AST (define_ast! in ast.rs).  A Token is its lexeme and its line;   *)
(* the locals table is keyed by the expression itself, as the BTreeMap      *)
(* <Expr, usize> of the interpreter is.                                     *)

Literal(v) == [t |-> "Literal", v |-> v]
Var(name, line) == [t |-> "Var", name |-> name, line |-> line]
Assign(name, line, value) ==
    [t |-> "Assign", name |-> name, line |-> line, value |-> value]
Grouping(group) == [t |-> "Grouping", group |-> group]
Unary(operator, right) == [t |-> "Unary", operator |-> operator, right |-> right]
Binary(left, operator, right) ==
    [t |-> "Binary", left |-> left, operator |-> operator, right |-> right]
Logical(left, operator, right) ==
    [t |-> "Logical", left |-> left, operator |-> operator, right |-> right]
Call(callee, arguments) ==
    [t |-> "Call", callee |-> callee, arguments |-> arguments]
Get(object, name) == [t |-> "Get", object |-> object, name |-> name]
Set(object, name, value) ==
    [t |-> "Set", object |-> object, name |-> name, value |-> value]
This(line) == [t |-> "This", name |-> "this", line |-> line]
Super(line, method) ==
    [t |-> "Super", name |-> "super", line |-> line, method |-> method]

Expression(expr) == [t |-> "Expression", expr |-> expr]
PrintStmt(expr) == [t |-> "Print", expr |-> expr]
VarDecl(name, expr) == [t |-> "VarDecl", name |-> name, expr |-> expr]
FunDecl(name, parameters, body) ==
    [t |-> "FunDecl", name |-> name, parameters |-> parameters, body |-> body]
Block(stmts) == [t |-> "Block", stmts |-> stmts]
If(condition, branch_true, branch_false) ==
    [t |-> "If", condition |-> condition, branch_true |-> branch_true,
     branch_false |-> branch_false]
While(condition, body) == [t |-> "While", condition |-> condition, body |-> body]
Return(line, value) == [t |-> "Return", line |-> line, value |-> value]
NoSuperclass == [t |-> "None"]
ClassDecl(name, methods, superclass) ==
    [t |-> "ClassDecl", name |-> name, methods |-> methods,
     superclass |-> superclass]

\* Parser::if_stmt without else: the false branch is the statement nil;
IfThen(condition, branch_true) ==
    If(condition, branch_true, Expression(Literal(Nil)))

\* A for statement whose increment runs before the body.
ForStmtIncrementFirst(initializer, condition, increment, body) ==
    LET inner == IF increment # <<>>
                 THEN Block(<<Expression(increment[1]), body>>)
                 ELSE body
        loop == While(IF condition # <<>> THEN condition[1]
                      ELSE Literal(BoolV(TRUE)), inner)
    IN IF initializer # <<>> THEN Block(<<initializer[1], loop>>) ELSE loop

\* Parser::for_stmt; an Option is a sequence of at most one element
ForStmt(initializer, condition, increment, body) ==
    LET inner == IF increment # <<>>
                 THEN Block(<<body, Expression(increment[1])>>)
                 ELSE body
        loop == While(IF condition # <<>> THEN condition[1]
                      ELSE Literal(BoolV(TRUE)), inner)
    IN IF initializer # <<>> THEN Block(<<initializer[1], loop>>) ELSE loop

\* Ghost tags: the construct (by its path in the program tree) that opens a
\* resolver scope or creates a runtime frame.
Tag(path, kind) == [p |-> path, k |-> kind]
ParentPath(path) == SubSeq(path, 1, Len(path) - 1)

----------------------------------------------------------------------------
(* The resolver (visitors/resolver.rs).  z is the Resolver: the scope      *)
(* stack, current_function, current_class; locals is the table of the      *)
(* interpreter it writes through Interpreter::resolve, bind the ghost that  *)
(* remembers for each resolved occurrence the scope its name was found in.  *)

ResolverNew ==
    [scopes |-> <<[symbol_table |-> EmptyTable, tag |-> GlobalTag]>>,
     current_function |-> "None",
     current_class |-> "None",
     locals |-> EmptyTable,
     bind |-> EmptyTable]

\* `let a = <visit>; <rest>`: the result of a visit, then the rest of the
\* handler with it
Then(a, Rest(_)) == Rest(a)

ROk(z) == [z |-> z, r |-> "Ok", msg |-> ""]
RErr(z, m) == [z |-> z, r |-> "Err", msg |-> m]
RPanic(z) == [z |-> z, r |-> "Panic", msg |-> "panic"]

BeginScope(z, tag) ==
    [z EXCEPT !.scopes = Append(@, [symbol_table |-> EmptyTable, tag |-> tag])]

EndScope(z) == [z EXCEPT !.scopes = SubSeq(@, 1, Len(@) - 1)]

ScopeDefine(z, name, value) ==
    [z EXCEPT !.scopes[Len(z.scopes)].symbol_table = Put(@, name, value)]

\* Resolver::declare
RDeclare(z, name) ==
    IF Len(z.scopes) = 0 THEN ROk(z)
    ELSE IF Len(z.scopes) # 1
            /\ name \in DOMAIN z.scopes[Len(z.scopes)].symbol_table
         THEN RErr(z, "Already a variable with this name in this scope.")
         ELSE ROk(ScopeDefine(z, name, FALSE))

\* Resolver::define
RDefine(z, name) ==
    IF Len(z.scopes) = 0 THEN z ELSE ScopeDefine(z, name, TRUE)

\* Resolver::contains_key
RContainsKey(z, name) ==
    \E i \in 1 .. Len(z.scopes) : name \in DOMAIN z.scopes[i].symbol_table

\* The innermost scope among scopes lo..Len that declares name (0: none).
InnermostScope(z, name, lo) ==
    LET S == {i \in lo .. Len(z.scopes) :
                 name \in DOMAIN z.scopes[i].symbol_table}
    IN IF S = {} THEN 0 ELSE CHOOSE i \in S : \A j \in S : j <= i

\* Resolver::get_non_global is Some(false): the innermost scope other than
\* the global one that declares name has its flag still false.
NonGlobalFlagFalse(z, name) ==
    LET i == InnermostScope(z, name, 2)
    IN i # 0 /\ z.scopes[i].symbol_table[name] = FALSE

\* Interpreter::resolve
Resolve(z, expr, depth, path, tag) ==
    [z EXCEPT !.locals = Put(@, expr, depth), !.bind = Put(@, path, tag)]

\* Resolver::resolve_local
ResolveLocal(z, expr, name, path) ==
    LET i == InnermostScope(z, name, 1)
    IN IF i = 0 THEN z
       ELSE Resolve(z, expr, Len(z.scopes) - i, path, z.scopes[i].tag)

RECURSIVE RAcceptExpr(_, _, _)
RECURSIVE RAcceptStmt(_, _, _)
RECURSIVE RCallArguments(_, _, _, _)
RECURSIVE RStmts(_, _, _, _)
RECURSIVE RParameters(_, _, _)
RECURSIVE RMethods(_, _, _, _)

\* Resolver::visit_var.  ghost: bind remembers the occurrences found to read
\* a local variable in its own initializer
RVisitVar(e, p, z) ==
    IF Len(z.scopes) # 0 /\ RContainsKey(z, e.name)
       /\ NonGlobalFlagFalse(z, e.name)
    THEN RErr([z EXCEPT !.bind = Put(@, p, Tag(p, "own"))],
              "Can't read local variable in its own initializer.")
    ELSE ROk(ResolveLocal(z, e, e.name, p))

\* unwrap() of a visitor result: an Err panics
Unwrapped(a) == IF a.r = "Err" THEN RPanic(a.z) ELSE a

\* Resolver::visit_unary
RVisitUnary(e, p, z) == Unwrapped(RAcceptExpr(e.right, p \o <<1>>, z))

\* Resolver::visit_binary and visit_logical
RVisitBinary(e, p, z) ==
    Then(Unwrapped(RAcceptExpr(e.left, p \o <<1>>, z)), LAMBDA l :
        IF l.r # "Ok" THEN l
        ELSE Unwrapped(RAcceptExpr(e.right, p \o <<2>>, l.z)))

\* Resolver::visit_assign
RVisitAssign(e, p, z) ==
    Then(RAcceptExpr(e.value, p \o <<1>>, z), LAMBDA v :
        IF v.r # "Ok" THEN v
        ELSE ROk(ResolveLocal(v.z, e, e.name, p)))

\* the arguments of visit_call: every argument is visited, errors are dropped
RCallArguments(args, i, p, z) ==
    IF i > Len(args) THEN ROk(z)
    ELSE Then(RAcceptExpr(args[i], p \o <<i>>, z), LAMBDA a :
             IF a.r = "Panic" THEN a
             ELSE RCallArguments(args, i + 1, p, a.z))

\* Resolver::visit_call
RVisitCall(e, p, z) ==
    Then(RAcceptExpr(e.callee, p \o <<0>>, z), LAMBDA c :
        IF c.r # "Ok" THEN c
        ELSE RCallArguments(e.arguments, 1, p, c.z))

\* Resolver::visit_set
RVisitSet(e, p, z) ==
    Then(RAcceptExpr(e.object, p \o <<1>>, z), LAMBDA o :
        IF o.r # "Ok" THEN o
        ELSE RAcceptExpr(e.value, p \o <<2>>, o.z))

\* Resolver::visit_this
RVisitThis(e, p, z) ==
    IF z.current_class = "None"
    THEN RErr(z, "Can't use 'this' outside of a class.")
    ELSE ROk(ResolveLocal(z, e, "this", p))

\* Resolver::visit_super
RVisitSuper(e, p, z) ==
    IF z.current_class = "None"
    THEN RErr(z, "Can't use 'super' outside of a class.")
    ELSE IF z.current_class # "SubClass"
    THEN RErr(z, "Can't use 'super' in a class with no superclass.")
    ELSE ROk(ResolveLocal(z, e, "super", p))

\* Expr::accept with the Resolver as visitor
RAcceptExpr(e, p, z) ==
    CASE e.t = "Var" -> RVisitVar(e, p, z)
      [] e.t = "Literal" -> ROk(z)
      [] e.t = "Unary" -> RVisitUnary(e, p, z)
      [] e.t \in {"Binary", "Logical"} -> RVisitBinary(e, p, z)
      [] e.t = "Grouping" -> RAcceptExpr(e.group, p \o <<1>>, z)
      [] e.t = "Assign" -> RVisitAssign(e, p, z)
      [] e.t = "Call" -> RVisitCall(e, p, z)
      [] e.t = "Get" -> RAcceptExpr(e.object, p \o <<1>>, z)
      [] e.t = "Set" -> RVisitSet(e, p, z)
      [] e.t = "This" -> RVisitThis(e, p, z)
      [] e.t = "Super" -> RVisitSuper(e, p, z)

\* a statement list visited with `?`: the first error ends the walk
RStmts(stmts, i, p, z) ==
    IF i > Len(stmts) THEN ROk(z)
    ELSE Then(RAcceptStmt(stmts[i], p \o <<i>>, z), LAMBDA a :
             IF a.r # "Ok" THEN a ELSE RStmts(stmts, i + 1, p, a.z))

\* the parameter loop of resolve_function
RParameters(params, i, z) ==
    IF i > Len(params) THEN ROk(z)
    ELSE Then(RDeclare(z, params[i]), LAMBDA d :
             IF d.r # "Ok" THEN d
             ELSE RParameters(params, i + 1, RDefine(d.z, params[i])))

\* Resolver::resolve_function
ResolveFunction(s, ftype, p, z) ==
    LET enclosing_function == z.current_function
        z1 == BeginScope([z EXCEPT !.current_function = ftype], Tag(p, "fun"))
    IN Then(RParameters(s.parameters, 1, z1), LAMBDA ps :
           IF ps.r # "Ok" THEN ps
           ELSE Then(RStmts(s.body, 1, p, ps.z), LAMBDA b :
                    IF b.r # "Ok" THEN b
                    ELSE ROk([EndScope(b.z) EXCEPT
                                 !.current_function = enclosing_function])))

\* Resolver::visit_var_decl
RVisitVarDecl(s, p, z) ==
    Then(RDeclare(z, s.name), LAMBDA d :
        IF d.r # "Ok" THEN d
        ELSE Then(RAcceptExpr(s.expr, p \o <<1>>, d.z), LAMBDA e :
                 IF e.r # "Ok" THEN e ELSE ROk(RDefine(e.z, s.name))))

\* Resolver::visit_block
RVisitBlock(s, p, z) ==
    Then(RStmts(s.stmts, 1, p, BeginScope(z, Tag(p, "block"))), LAMBDA b :
        IF b.r # "Ok" THEN b ELSE ROk(EndScope(b.z)))

\* Resolver::visit_if
RVisitIf(s, p, z) ==
    Then(RAcceptExpr(s.condition, p \o <<1>>, z), LAMBDA c :
        IF c.r # "Ok" THEN c
        ELSE Then(RAcceptStmt(s.branch_true, p \o <<2>>, c.z), LAMBDA a :
                 IF a.r # "Ok" THEN a
                 ELSE RAcceptStmt(s.branch_false, p \o <<3>>, a.z)))

\* Resolver::visit_while
RVisitWhile(s, p, z) ==
    Then(Unwrapped(RAcceptExpr(s.condition, p \o <<1>>, z)), LAMBDA c :
        IF c.r # "Ok" THEN c
        ELSE Unwrapped(RAcceptStmt(s.body, p \o <<2>>, c.z)))

\* Resolver::visit_fun_decl
RVisitFunDecl(s, p, z) ==
    Then(RDeclare(z, s.name), LAMBDA d :
        IF d.r # "Ok" THEN d
        ELSE ResolveFunction(s, "Function", p, RDefine(d.z, s.name)))

\* Resolver::visit_return.  ghost: bind remembers the returns found outside
\* a function and the returns with a value found in an initializer
RVisitReturn(s, p, z) ==
    IF z.current_function = "None"
    THEN RErr([z EXCEPT !.bind = Put(@, p, Tag(p, "toplevel"))],
              "Can't return from top-level code.")
    ELSE IF s.value # Literal(Nil)
    THEN IF z.current_function = "Initializer"
         THEN RErr([z EXCEPT !.bind = Put(@, p, Tag(p, "initvalue"))],
                   "Can't return a value from an initializer.")
         ELSE RAcceptExpr(s.value, p \o <<1>>, z)
    ELSE ROk(z)

\* the method loop of visit_class
RMethods(methods, i, p, z) ==
    IF i > Len(methods) THEN ROk(z)
    ELSE Then(ResolveFunction(methods[i],
                  IF methods[i].name = "init" THEN "Initializer"
                  ELSE "Method",
                  p \o <<i>>, z), LAMBDA a :
             IF a.r # "Ok" THEN a ELSE RMethods(methods, i + 1, p, a.z))

\* Resolver::visit_class
RVisitClass(s, p, z) ==
    LET enclosing_class == z.current_class
        hasSuper == s.superclass # NoSuperclass
    IN Then(RDeclare([z EXCEPT !.current_class = "Class"], s.name), LAMBDA d :
       IF d.r # "Ok" THEN d
       ELSE IF hasSuper /\ s.superclass.name = s.name
       THEN RErr(RDefine(d.z, s.name), "A class can't inherit from itself.")
       ELSE Then(IF hasSuper
                 THEN Unwrapped(RAcceptExpr(s.superclass, p \o <<0>>,
                          [RDefine(d.z, s.name) EXCEPT
                              !.current_class = "SubClass"]))
                 ELSE ROk(RDefine(d.z, s.name)), LAMBDA sup :
            IF sup.r # "Ok" THEN sup
            ELSE Then(RMethods(s.methods, 1, p,
                          RDefine(BeginScope(
                              IF hasSuper
                              THEN RDefine(BeginScope(sup.z, Tag(p, "super")),
                                           "super")
                              ELSE sup.z,
                              Tag(p, "this")), "this")), LAMBDA m :
                 IF m.r # "Ok" THEN m
                 ELSE ROk([EndScope(IF hasSuper THEN EndScope(m.z) ELSE m.z)
                              EXCEPT !.current_class = enclosing_class]))))

\* Stmt::accept with the Resolver as visitor
RAcceptStmt(s, p, z) ==
    CASE s.t \in {"Expression", "Print"} -> RAcceptExpr(s.expr, p \o <<1>>, z)
      [] s.t = "VarDecl" -> RVisitVarDecl(s, p, z)
      [] s.t = "Block" -> RVisitBlock(s, p, z)
      [] s.t = "If" -> RVisitIf(s, p, z)
      [] s.t = "While" -> RVisitWhile(s, p, z)
      [] s.t = "FunDecl" -> RVisitFunDecl(s, p, z)
      [] s.t = "Return" -> RVisitReturn(s, p, z)
      [] s.t = "ClassDecl" -> RVisitClass(s, p, z)

----------------------------------------------------------------------------
(* The operator kernel (operators.rs).                                     *)

VOk(v) == [r |-> "Ok", v |-> v, msg |-> ""]
VErr(m) == [r |-> "Err", v |-> Nil, msg |-> m]

\* Operator::unary
UnaryOp(operator, right) ==
    CASE operator = "Minus" ->
            IF right.k = "Num" THEN VOk(Num(0 - right.n))
            ELSE VErr("Operand must be a number.")
      [] operator = "Bang" ->
            IF right.k = "Bool" THEN VOk(BoolV(~right.b))
            ELSE VErr("Operand must be a bool")
      [] OTHER -> VErr("Unknown unary operation")

\* Operator::equal_equal
EqualEqual(l, r) ==
    IF l.k = "Fun" /\ r.k = "Fun"
    THEN VOk(BoolV(l.name = r.name /\ l.parameters = r.parameters))
    ELSE IF l.k = "Class" /\ r.k = "Class" THEN VOk(BoolV(l.name = r.name))
    ELSE IF l.k = "Bool" /\ r.k = "Bool" THEN VOk(BoolV(l.b = r.b))
    ELSE IF l.k = "Num" /\ r.k = "Num" THEN VOk(BoolV(l.n = r.n))
    ELSE IF l.k = "Str" /\ r.k = "Str" THEN VOk(BoolV(l.s = r.s))
    ELSE IF l.k = "Nil" /\ r.k = "Nil" THEN VOk(BoolV(TRUE))
    ELSE IF l.k = "Nil" \/ r.k = "Nil" THEN VOk(BoolV(FALSE))
    ELSE VErr("Operands must be of the same type")

\* Operator::bang_equal
BangEqual(l, r) ==
    IF l.k = "Bool" /\ r.k = "Bool" THEN VOk(BoolV(l.b # r.b))
    ELSE IF l.k = "Num" /\ r.k = "Num" THEN VOk(BoolV(l.n # r.n))
    ELSE IF l.k = "Str" /\ r.k = "Str" THEN VOk(BoolV(l.s # r.s))
    ELSE VErr("Operands must be of the same type")

\* Operator::addition
Addition(l, r) ==
    IF l.k = "Num" /\ r.k = "Num" THEN VOk(Num(l.n + r.n))
    ELSE IF l.k = "Str" /\ r.k = "Str" THEN VOk(Str(l.s \o r.s))
    ELSE VErr("Operands must be two numbers or two strings.")

\* Operator::binary
BinaryOp(operator, l, r) ==
    LET nums == l.k = "Num" /\ r.k = "Num"
        bad == VErr("Operands must be numbers.")
    IN CASE operator = "Plus" -> Addition(l, r)
         [] operator = "Minus" -> IF nums THEN VOk(Num(l.n - r.n)) ELSE bad
         [] operator = "Star" -> IF nums THEN VOk(Num(l.n * r.n)) ELSE bad
         [] operator = "EqualEqual" -> EqualEqual(l, r)
         [] operator = "BangEqual" -> BangEqual(l, r)
         [] operator = "Greater" -> IF nums THEN VOk(BoolV(l.n > r.n)) ELSE bad
         [] operator = "GreaterEqual" ->
                IF nums THEN VOk(BoolV(l.n >= r.n)) ELSE bad
         [] operator = "Less" -> IF nums THEN VOk(BoolV(l.n < r.n)) ELSE bad
         [] operator = "LessEqual" ->
                IF nums THEN VOk(BoolV(l.n <= r.n)) ELSE bad

----------------------------------------------------------------------------
(* Runtime values of ast.rs: Function, Class, Instance.                    *)

\* Function::from_stmt; path is the ghost place of the declaration
FromStmt(stmt, env, is_initializer, path) ==
    [k |-> "Fun", name |-> stmt.name, parameters |-> stmt.parameters,
     body |-> stmt.body, context |-> env,
     is_initializer |-> is_initializer, path |-> path]

NoSuperValue == [k |-> "None"]

ClassValue(name, methods, superclass) ==
    [k |-> "Class", name |-> name, methods |-> methods,
     superclass |-> superclass]

InstanceValue(class, fields) ==
    [k |-> "Inst", class |-> class, fields |-> fields]

NotFound == [found |-> FALSE, fun |-> Nil]

\* Class::find_method
RECURSIVE FindMethod(_, _)
FindMethod(class, name) ==
    IF name \in DOMAIN class.methods
    THEN [found |-> TRUE, fun |-> class.methods[name]]
    ELSE IF class.superclass # NoSuperValue
         THEN FindMethod(class.superclass, name)
         ELSE NotFound

\* Function::bind: a fresh frame {this: instance} enclosed by the method's
\* context; the bound function is returned with the heap that holds the frame.
Bind(st, fun, instance) ==
    LET id == AllocId(st)
        st1 == HeapPush(st, NewWithEnclosing(fun.context,
                                Tag(ParentPath(fun.path), "this")))
    IN [st |-> Define(st1, id, "this", instance),
        fun |-> [fun EXCEPT !.context = id]]

\* Instance::set_field
SetField(instance, name, value) ==
    [instance EXCEPT !.fields = Put(@, name, value)]

----------------------------------------------------------------------------
(* The tree-walk interpreter (interpreter/visitors/interpreter.rs).        *)
(* A visitor result is the interpreter after the visit together with        *)
(* Ok(Some(v)), Ok(None), Err(msg) or the fact that the visit panicked.     *)

EOk(st, v) == [st |-> st, r |-> "Ok", some |-> TRUE, v |-> v, msg |-> ""]
SOk(st) == [st |-> st, r |-> "Ok", some |-> FALSE, v |-> Nil, msg |-> ""]
IErr(st, m) == [st |-> st, r |-> "Err", some |-> FALSE, v |-> Nil, msg |-> m]
IPanic(st) ==
    [st |-> st, r |-> "Panic", some |-> FALSE, v |-> Nil, msg |-> "panic"]

\* .unwrap() on the Result of a visit
IUnwrapped(a) == IF a.r = "Err" THEN IPanic(a.st) ELSE a

Lifted(st, x) == IF x.r = "Ok" THEN EOk(st, x.v) ELSE IErr(st, x.msg)

\* ghost: what the interpreter's frame lookups observed
FrameTag(st, f) == IF f = 0 THEN Tag(<<>>, "none") ELSE st.frames[f].tag

WantedTag(st, p) ==
    IF p \in DOMAIN st.bind THEN st.bind[p] ELSE Tag(<<>>, "unresolved")

\* a read or store at the distance the locals table gives: the scope the
\* resolver found the name in, the frame reached, and whether the frame
\* holds what was last stored under the name in the frame's allocation
LogRead(st, p, distance, name) ==
    LET f == IteratorNext(st, distance)
        bound == f # 0 /\ ContainsKey(st, f, name)
        key == IF f = 0 THEN <<0, name>> ELSE <<st.frames[f].origin, name>>
    IN [st EXCEPT !.ghost.reads = @ \cup
        {[want |-> WantedTag(st, p),
          got |-> FrameTag(st, f),
          name |-> name,
          top |-> st.ghost.top,
          via |-> st.frames[st.environments].tag,
          writer |-> IF key \in DOMAIN st.ghost.last
                     THEN st.ghost.last[key].via ELSE Tag(<<>>, "none"),
          seen |-> \/ ~bound
                   \/ /\ key \in DOMAIN st.ghost.last
                      /\ st.ghost.last[key].v = Retrieve(st, f, name)]}]

LogGlobals(st) ==
    [st EXCEPT !.ghost.globals = @ \cup
        {[tag |-> FrameTag(st, Globals(st)),
          root |-> st.frames[Globals(st)].enclosing = 0]}]

LogBlock(st, before, how) ==
    [st EXCEPT !.ghost.blocks = @ \cup
        {[same |-> st.environments = before, how |-> how]}]

\* Interpreter::check_symbol
CheckSymbol(st, name) == BoundInChain(st, st.environments, name)

\* Interpreter::lookup_symbol
LookupSymbol(st, name, expr, p) ==
    IF expr \in DOMAIN st.locals
    THEN LET distance == st.locals[expr]
             x == GetSymbolAt(st, distance, name)
         IN Lifted(LogRead(st, p, distance, name), x)
    ELSE LET st1 == LogGlobals(st)
         IN IF ContainsKey(st, Globals(st), name)
            THEN EOk(st1, Retrieve(st, Globals(st), name))
            ELSE IErr(st1, "Undefined variable")

\* the store shared by visit_assign and visit_set: at the recorded distance,
\* or in globals() when the expression has no entry in locals
StoreSymbol(st, key, name, value, p) ==
    IF key \in DOMAIN st.locals
    THEN AssignSymbolAt(LogRead(st, p, st.locals[key], name),
                        st.locals[key], name, value)
    ELSE Define(LogGlobals(st), Globals(st), name, value)

RECURSIVE IAcceptExpr(_, _, _)
RECURSIVE IAcceptStmt(_, _, _)
RECURSIVE ICallArguments(_, _, _, _, _)
RECURSIVE ExecuteBlockLoop(_, _, _, _)
RECURSIVE WhileLoop(_, _, _)

\* Interpreter::execute_block: an error leaves through `?` before the
\* environment is set back
ExecuteBlock(stmts, p, env, st) ==
    Then(ExecuteBlockLoop(stmts, 1, p, [st EXCEPT !.environments = env]),
         LAMBDA b :
            IF b.r # "Ok" THEN b
            ELSE [b EXCEPT !.st.environments = st.environments])

ExecuteBlockLoop(stmts, i, p, st) ==
    IF i > Len(stmts) THEN SOk(st)
    ELSE Then(IAcceptStmt(stmts[i], p \o <<i>>, st), LAMBDA a :
             IF a.r # "Ok" \/ a.some THEN a
             ELSE ExecuteBlockLoop(stmts, i + 1, p, a.st))

\* the parameters of a call defined in the new frame
RECURSIVE DefineParameters(_, _, _, _, _)
DefineParameters(st, f, params, args, i) ==
    IF i > Len(args) THEN st
    ELSE DefineParameters(Define(st, f, params[i], args[i]), f, params,
                          args, i + 1)

\* An execute_call that treats an initializer like any other function.
FunctionExecuteCallPlain(fun, args, st) ==
    LET env == AllocId(st)
        st1 == CreateEnvironment(st, fun.context, Tag(fun.path, "fun"))
    IN IF Len(args) # Len(fun.parameters)
       THEN IErr(st, "Invalid number of arguments.")
       ELSE Then(ExecuteBlock(fun.body, fun.path, env,
                     DefineParameters(st1, env, fun.parameters, args, 1)),
                 LAMBDA b :
                    IF b.r # "Ok" THEN b
                    ELSE IF b.some THEN EOk(b.st, b.v) ELSE EOk(b.st, Nil))

\* Function::execute_call
FunctionExecuteCall(fun, args, st) ==
    LET context == fun.context
        env == AllocId(st)
        st1 == CreateEnvironment(st, context, Tag(fun.path, "fun"))
    IN IF Len(args) # Len(fun.parameters)
       THEN IErr(st, "Invalid number of arguments.")
       ELSE Then(ExecuteBlock(fun.body, fun.path, env,
                     DefineParameters(st1, env, fun.parameters, args, 1)),
                 LAMBDA b :
                    IF b.r # "Ok" THEN b
                    ELSE IF fun.is_initializer
                    THEN IF ContainsKey(b.st, context, "this")
                         THEN EOk(b.st, Retrieve(b.st, context, "this"))
                         ELSE IPanic(b.st)
                    ELSE IF b.some THEN EOk(b.st, b.v) ELSE EOk(b.st, Nil))

\* Class::execute_call
ClassExecuteCall(class, args, st) ==
    LET instance == InstanceValue(class, EmptyTable)
        init == FindMethod(class, "init")
    IN IF init.found
       THEN LET bound == Bind(st, init.fun, instance)
            IN FunctionExecuteCall(bound.fun, args, bound.st)
       ELSE IF Len(args) # 0 THEN IErr(st, "Invalid number of arguments.")
       ELSE EOk(st, instance)

\* A get_field that looks for a method before it looks for a field.
GetFieldMethodFirst(st, instance, name) ==
    LET method == FindMethod(instance.class, name)
    IN IF method.found
       THEN LET bound == Bind(st, method.fun, instance)
            IN EOk(bound.st, bound.fun)
       ELSE IF name \in DOMAIN instance.fields
       THEN EOk(st, instance.fields[name])
       ELSE IErr(st, "Undefined property.")

\* Instance::get_field
GetField(st, instance, name) ==
    IF name \in DOMAIN instance.fields THEN EOk(st, instance.fields[name])
    ELSE LET method == FindMethod(instance.class, name)
         IN IF method.found
            THEN LET bound == Bind(st, method.fun, instance)
                 IN EOk(bound.st, bound.fun)
            ELSE IErr(st, "Undefined property.")

\* Interpreter::visit_unary
IVisitUnary(e, p, st) ==
    Then(IAcceptExpr(e.right, p \o <<1>>, st), LAMBDA a :
        IF a.r # "Ok" THEN a ELSE Lifted(a.st, UnaryOp(e.operator, a.v)))

\* Interpreter::visit_binary
IVisitBinary(e, p, st) ==
    Then(IAcceptExpr(e.left, p \o <<1>>, st), LAMBDA l :
        IF l.r # "Ok" THEN l
        ELSE Then(IAcceptExpr(e.right, p \o <<2>>, l.st), LAMBDA r :
                 IF r.r # "Ok" THEN r
                 ELSE Lifted(
                        IF e.operator \in {"EqualEqual", "BangEqual"}
                        THEN [r.st EXCEPT !.ghost.equalities = @ \cup
                                {[operator |-> e.operator,
                                  left |-> l.v.k, right |-> r.v.k,
                                  same |-> l.v = r.v,
                                  x |-> BinaryOp(e.operator, l.v, r.v)]}]
                        ELSE r.st,
                        BinaryOp(e.operator, l.v, r.v))))

\* Interpreter::visit_assign
IVisitAssign(e, p, st) ==
    IF CheckSymbol(st, e.name)
    THEN Then(IAcceptExpr(e.value, p \o <<1>>, st), LAMBDA a :
             IF a.r # "Ok" THEN a
             ELSE EOk(StoreSymbol(a.st, e, e.name, a.v, p), a.v))
    ELSE IErr(st, "Undefined variable")

\* ghost: the operator and left value of a Logical, whether the right
\* operand was visited, and the value the Logical gave
LogLogical(r, operator, left, visited) ==
    IF r.r # "Ok" THEN r
    ELSE [r EXCEPT !.st.ghost.logicals = @ \cup
            {[operator |-> operator, left |-> left, right |-> visited,
              v |-> r.v]}]

\* A visit_logical with the truthiness of Lox: `or` keeps every left value
\* other than false and nil.
IVisitLogicalTruthy(e, p, st) ==
    Then(IUnwrapped(IAcceptExpr(e.left, p \o <<1>>, st)), LAMBDA l :
        IF l.r # "Ok" THEN l
        ELSE IF (e.operator = "Or") = (l.v \notin {BoolV(FALSE), Nil})
        THEN LogLogical(l, e.operator, l.v, FALSE)
        ELSE LogLogical(IUnwrapped(IAcceptExpr(e.right, p \o <<2>>, l.st)),
                        e.operator, l.v, TRUE))

\* Interpreter::visit_logical
IVisitLogical(e, p, st) ==
    Then(IUnwrapped(IAcceptExpr(e.left, p \o <<1>>, st)), LAMBDA l :
        IF l.r # "Ok" THEN l
        ELSE IF e.operator = "Or"
        THEN IF l.v = BoolV(TRUE) THEN LogLogical(l, "Or", l.v, FALSE)
             ELSE LogLogical(
                      IUnwrapped(IAcceptExpr(e.right, p \o <<2>>, l.st)),
                      "Or", l.v, TRUE)
        ELSE IF l.v = BoolV(FALSE) THEN LogLogical(l, "And", l.v, FALSE)
             ELSE IF l.v = Nil
             THEN LogLogical(EOk(l.st, Nil), "And", l.v, FALSE)
             ELSE LogLogical(
                      IUnwrapped(IAcceptExpr(e.right, p \o <<2>>, l.st)),
                      "And", l.v, TRUE))

\* the arguments of visit_call, each unwrapped; v is the list of values
ICallArguments(args, i, p, st, acc) ==
    IF i > Len(args) THEN EOk(st, acc)
    ELSE Then(IUnwrapped(IAcceptExpr(args[i], p \o <<i>>, st)), LAMBDA a :
             IF a.r # "Ok" THEN a
             ELSE ICallArguments(args, i + 1, p, a.st, Append(acc, a.v)))

\* ghost: what a call of an initializer (directly, or by calling a class
\* that has an init method) returned, against `this` in the frame the
\* initializer captured; ctx is that frame
LogCall(r, ctx) ==
    IF r.r # "Ok" THEN r
    ELSE [r EXCEPT !.st.ghost.calls = @ \cup
            {[isThis |-> /\ ContainsKey(r.st, ctx, "this")
                         /\ r.v = Retrieve(r.st, ctx, "this"),
              fields |-> IF r.v.k = "Inst" THEN DOMAIN r.v.fields ELSE {},
              class |-> IF r.v.k = "Inst" THEN r.v.class.name ELSE ""]}]

\* Interpreter::visit_call
IVisitCall(e, p, st) ==
    Then(IAcceptExpr(e.callee, p \o <<0>>, st), LAMBDA c :
        IF c.r # "Ok" THEN c
        ELSE Then(ICallArguments(e.arguments, 1, p, c.st, <<>>), LAMBDA args :
                 IF args.r # "Ok" THEN args
                 ELSE IF c.v.k = "Fun"
                 THEN IF Len(args.v) # Len(c.v.parameters)
                      THEN IErr(args.st, "Invalid number of arguments")
                      ELSE IF c.v.is_initializer
                      THEN LogCall(FunctionExecuteCall(c.v, args.v, args.st),
                                   c.v.context)
                      ELSE FunctionExecuteCall(c.v, args.v, args.st)
                 ELSE IF c.v.k = "Class"
                 THEN IF FindMethod(c.v, "init").found
                      THEN LogCall(ClassExecuteCall(c.v, args.v, args.st),
                                   AllocId(args.st))
                      ELSE ClassExecuteCall(c.v, args.v, args.st)
                 ELSE IErr(args.st, "Can only call functions and classes.")))

\* ghost: what get_field gave for the name on the instance
LogGet(r, instance, name) ==
    LET method == FindMethod(instance.class, name)
        hasField == name \in DOMAIN instance.fields
    IN [r EXCEPT !.st.ghost.gets = @ \cup
        {[hasField |-> hasField, hasMethod |-> method.found,
          res |-> IF r.r # "Ok" THEN "error"
                  ELSE IF hasField /\ r.v = instance.fields[name]
                  THEN "field"
                  ELSE IF /\ method.found /\ r.v.k = "Fun"
                          /\ r.v.path = method.fun.path
                          /\ Retrieve(r.st, r.v.context, "this") = instance
                  THEN "method"
                  ELSE "other"]}]

\* Interpreter::visit_get
IVisitGet(e, p, st) ==
    Then(IAcceptExpr(e.object, p \o <<1>>, st), LAMBDA o :
        IF o.r = "Panic" THEN o
        ELSE IF o.r = "Ok" /\ o.v.k = "Inst"
        THEN LogGet(GetField(o.st, o.v, e.name), o.v, e.name)
        ELSE IErr(o.st, "Only instances have properties."))

\* ghost: the store of visit_set, from st0 to st2; f is the frame the
\* locals table (or globals()) designates for the object's name
LogSet(st0, st2, f, name, field, value, instance) ==
    LET had == f # 0 /\ ContainsKey(st0, f, name)
        has == f # 0 /\ ContainsKey(st2, f, name)
        new == Retrieve(st2, f, name)
        old == Retrieve(st0, f, name)
    IN [st2 EXCEPT !.ghost.sets = @ \cup
        {[name |-> name, field |-> field,
          bound |-> /\ has /\ new.k = "Inst"
                    /\ field \in DOMAIN new.fields
                    /\ new.fields[field] = value,
          only |-> /\ has /\ new.k = "Inst"
                   /\ new.class = instance.class
                   /\ DOMAIN new.fields = DOMAIN instance.fields \cup {field}
                   /\ \A g \in DOMAIN instance.fields \ {field} :
                         new.fields[g] = instance.fields[g],
          kept |-> \/ ~(had /\ has) \/ old.k # "Inst" \/ new.k # "Inst"
                   \/ \A g \in DOMAIN old.fields \ {field} :
                         /\ g \in DOMAIN new.fields
                         /\ new.fields[g] = old.fields[g],
          others |-> /\ Len(st2.frames) = Len(st0.frames)
                     /\ \A i \in 1 .. Len(st0.frames) :
                          \A key \in DOMAIN st0.frames[i].symbol_table :
                             \/ (i = f /\ key = name)
                             \/ /\ key \in DOMAIN st2.frames[i].symbol_table
                                /\ st2.frames[i].symbol_table[key]
                                      = st0.frames[i].symbol_table[key]]}]

\* Interpreter::visit_set
IVisitSet(e, p, st) ==
    Then(IAcceptExpr(e.object, p \o <<1>>, st), LAMBDA o :
        IF o.r # "Ok" THEN o
        ELSE IF o.v.k # "Inst" THEN IErr(o.st, "Only instances have fields.")
        ELSE Then(IAcceptExpr(e.value, p \o <<2>>, o.st), LAMBDA v :
                 IF v.r # "Ok" THEN v
                 ELSE IF e.object.t \notin {"Var", "This"} THEN IPanic(v.st)
                 ELSE EOk(LogSet(v.st,
                                 StoreSymbol(v.st, e.object, e.object.name,
                                             SetField(o.v, e.name, v.v),
                                             p \o <<1>>),
                                 IF e.object \in DOMAIN v.st.locals
                                 THEN IteratorNext(v.st, v.st.locals[e.object])
                                 ELSE Globals(v.st),
                                 e.object.name, e.name, v.v, o.v), v.v)))

\* the tail of visit_super: find the method on class cls and bind it to
\* object.  ghost: the method found, the object it is bound to, and the
\* `this` of the nearest enclosing frame that holds one
SuperDispatch(st, p, cls, object, method) ==
    LET func == FindMethod(cls, method)
        depths == {n \in 0 .. Len(st.frames) :
                     /\ IteratorNext(st, n) # 0
                     /\ ContainsKey(st, IteratorNext(st, n), "this")}
        nearest == CHOOSE n \in depths : \A m \in depths : n <= m
    IN IF func.found
       THEN LET bound == Bind(st, func.fun, object)
            IN EOk([bound.st EXCEPT !.ghost.supers = @ \cup
                      {[from |-> p, method |-> func.fun.path,
                        self |-> Retrieve(bound.st, bound.fun.context, "this"),
                        recv |-> IF depths = {} THEN Nil
                                 ELSE Retrieve(st, IteratorNext(st, nearest),
                                               "this")]}],
                   bound.fun)
       ELSE IErr(st, "Undefined property.")

\* A visit_super that looks the method up on the superclass of the class
\* of `this`.
IVisitSuperDynamic(e, p, st) ==
    IF e \notin DOMAIN st.locals THEN IPanic(st)
    ELSE LET d == st.locals[e]
             st1 == LogRead(st, p, d, "super")
             superclass == GetSymbolAt(st, d, "super")
             object == GetSymbolAt(st, d - 1, "this")
         IN IF superclass.r # "Ok" THEN IErr(st1, superclass.msg)
            ELSE IF object.r # "Ok" THEN IErr(st1, object.msg)
            ELSE IF superclass.v.k # "Class" \/ object.v.k # "Inst"
            THEN IPanic(st1)
            ELSE IF object.v.class.superclass = NoSuperValue THEN IPanic(st1)
            ELSE SuperDispatch(st1, p, object.v.class.superclass, object.v,
                               e.method)

\* Interpreter::visit_super
IVisitSuper(e, p, st) ==
    IF e \notin DOMAIN st.locals THEN IPanic(st)
    ELSE LET d == st.locals[e]
             st1 == LogRead(st, p, d, "super")
             superclass == GetSymbolAt(st, d, "super")
             object == GetSymbolAt(st, d - 1, "this")
         IN IF superclass.r # "Ok" THEN IErr(st1, superclass.msg)
            ELSE IF object.r # "Ok" THEN IErr(st1, object.msg)
            ELSE IF superclass.v.k # "Class" \/ object.v.k # "Inst"
            THEN IPanic(st1)
            ELSE SuperDispatch(st1, p, superclass.v, object.v, e.method)

\* Expr::accept with the Interpreter as visitor
IAcceptExpr(e, p, st) ==
    CASE e.t = "Var" -> LookupSymbol(st, e.name, e, p)
      [] e.t = "Literal" -> EOk(st, e.v)
      [] e.t = "Unary" -> IVisitUnary(e, p, st)
      [] e.t = "Binary" -> IVisitBinary(e, p, st)
      [] e.t = "Grouping" -> IAcceptExpr(e.group, p \o <<1>>, st)
      [] e.t = "Assign" -> IVisitAssign(e, p, st)
      [] e.t = "Logical" -> IVisitLogical(e, p, st)
      [] e.t = "Call" -> IVisitCall(e, p, st)
      [] e.t = "Get" -> IVisitGet(e, p, st)
      [] e.t = "Set" -> IVisitSet(e, p, st)
      [] e.t = "This" -> LookupSymbol(st, "this", e, p)
      [] e.t = "Super" -> IVisitSuper(e, p, st)

\* what println! shows of a value: a class, an instance of it and a
\* function are shown by name
Shown(v) ==
    CASE v.k = "Class" -> Str(v.name)
      [] v.k = "Inst" -> Str(v.class.name)
      [] v.k = "Fun" -> Str(v.name)
      [] OTHER -> v

Println(st, ch, v) ==
    [st EXCEPT !.stdout = Append(@, [ch |-> ch, v |-> v])]

\* Interpreter::visit_expr
IVisitExpr(s, p, st) ==
    Then(IAcceptExpr(s.expr, p \o <<1>>, st), LAMBDA a :
        IF a.r # "Ok" THEN a ELSE SOk(a.st))

\* Interpreter::visit_print
IVisitPrint(s, p, st) ==
    Then(IAcceptExpr(s.expr, p \o <<1>>, st), LAMBDA a :
        IF a.r # "Ok" THEN a ELSE SOk(Println(a.st, "print", Shown(a.v))))

\* Interpreter::visit_var_decl
IVisitVarDecl(s, p, st) ==
    Then(IAcceptExpr(s.expr, p \o <<1>>, st), LAMBDA a :
        IF a.r # "Ok" THEN a ELSE SOk(DefineSymbol(a.st, s.name, a.v)))

\* Interpreter::visit_if
IVisitIf(s, p, st) ==
    Then(IUnwrapped(IAcceptExpr(s.condition, p \o <<1>>, st)), LAMBDA c :
        IF c.r # "Ok" THEN c
        ELSE IF c.v.k = "Bool"
        THEN IF c.v.b THEN IAcceptStmt(s.branch_true, p \o <<2>>, c.st)
             ELSE IAcceptStmt(s.branch_false, p \o <<3>>, c.st)
        ELSE IErr(c.st, "Invalid condition"))

\* ghost: one more evaluation of the condition (conds), run of the body
\* (bodies) or exit on a condition that is not true (falses) of the While
\* at path p
Tick(st, p, what) ==
    LET zero == [conds |-> 0, bodies |-> 0, falses |-> 0]
        old == IF p \in DOMAIN st.ghost.whiles THEN st.ghost.whiles[p]
               ELSE zero
    IN [st EXCEPT !.ghost.whiles = Put(@, p, [old EXCEPT ![what] = @ + 1])]

\* A loop that evaluates the condition once more after the body has
\* yielded a Return carrier.
WhileLoopRecheck(s, p, cond) ==
    IF cond.v # BoolV(TRUE) THEN SOk(Tick(cond.st, p, "falses"))
    ELSE Then(IAcceptStmt(s.body, p \o <<2>>, Tick(cond.st, p, "bodies")),
              LAMBDA b :
                 IF b.r # "Ok" THEN b
                 ELSE Then(IUnwrapped(IAcceptExpr(s.condition, p \o <<1>>,
                                                  b.st)),
                           LAMBDA c :
                              IF c.r # "Ok" THEN c
                              ELSE IF b.some
                              THEN [b EXCEPT !.st = Tick(c.st, p, "conds")]
                              ELSE WhileLoop(s, p,
                                      [c EXCEPT !.st = Tick(@, p, "conds")])))

\* the loop of visit_while, entered with the condition's value in cond and
\* the result so far in cond.some/cond.v
WhileLoop(s, p, cond) ==
    IF cond.v # BoolV(TRUE) THEN SOk(Tick(cond.st, p, "falses"))
    ELSE Then(IAcceptStmt(s.body, p \o <<2>>, Tick(cond.st, p, "bodies")),
              LAMBDA b :
                 IF b.r # "Ok" \/ b.some THEN b
                 ELSE Then(IUnwrapped(IAcceptExpr(s.condition, p \o <<1>>,
                                                  b.st)),
                           LAMBDA c :
                              IF c.r # "Ok" THEN c
                              ELSE WhileLoop(s, p,
                                      [c EXCEPT !.st = Tick(@, p, "conds")])))

\* Interpreter::visit_while
IVisitWhile(s, p, st) ==
    Then(IUnwrapped(IAcceptExpr(s.condition, p \o <<1>>, st)), LAMBDA c :
        IF c.r # "Ok" THEN c
        ELSE WhileLoop(s, p, [c EXCEPT !.st = Tick(@, p, "conds")]))

\* Interpreter::visit_block: the frame is dropped whatever execute_block
\* returned; drop_environment panics when the current frame has no
\* enclosing one
IVisitBlock(s, p, st) ==
    Then(ExecuteBlock(s.stmts, p, AllocId(st),
                      NewEnvironment(st, 0, Tag(p, "block"))), LAMBDA b :
        IF b.r = "Panic" \/ DropPanics(b.st) THEN IPanic(b.st)
        ELSE [b EXCEPT !.st = LogBlock(DropEnvironment(b.st),
                                       st.environments,
                                       IF b.r = "Err" THEN "Err"
                                       ELSE IF b.some THEN "Return"
                                       ELSE "None")])

\* A visit_fun_decl whose function captures a copy of the current frame.
IVisitFunDeclCopy(s, p, st) ==
    LET copy == AllocId(st)
        st1 == [st EXCEPT !.frames = Append(@, st.frames[st.environments])]
    IN SOk(DefineSymbol(st1, s.name, FromStmt(s, copy, FALSE, p)))

\* Interpreter::visit_fun_decl
IVisitFunDecl(s, p, st) ==
    SOk(DefineSymbol(st, s.name, FromStmt(s, st.environments, FALSE, p)))

\* Interpreter::visit_return; the carrier is Ok(Some(Return{value}))
IVisitReturn(s, p, st) ==
    IF s.value = Literal(Nil) THEN EOk(st, Nil)
    ELSE IAcceptExpr(s.value, p \o <<1>>, st)

\* the methods of visit_class; a later method of the same name replaces
\* the earlier one
RECURSIVE ClassMethods(_, _, _, _, _)
ClassMethods(methods, i, p, env, meths) ==
    IF i > Len(methods) THEN meths
    ELSE ClassMethods(methods, i + 1, p, env,
            Put(meths, methods[i].name,
                FromStmt(methods[i], env, methods[i].name = "init",
                         p \o <<i>>)))

\* Interpreter::visit_class
IVisitClass(s, p, st) ==
    IF s.superclass = NoSuperclass
    THEN SOk(DefineSymbol(st, s.name,
             ClassValue(s.name,
                 ClassMethods(s.methods, 1, p, st.environments, EmptyTable),
                 NoSuperValue)))
    ELSE Then(IUnwrapped(IAcceptExpr(s.superclass, p \o <<0>>, st)), LAMBDA a :
            IF a.r # "Ok" THEN a
            ELSE IF a.v.k # "Class"
            THEN IErr(a.st, "Superclass must be a class.")
            ELSE LET nenv == AllocId(a.st)
                     st1 == Define(CreateEnvironment(a.st, st.environments,
                                       Tag(p, "super")),
                                   nenv, "super", a.v)
                 IN SOk(DefineSymbol(st1, s.name,
                        ClassValue(s.name,
                            ClassMethods(s.methods, 1, p, nenv, EmptyTable),
                            a.v))))

\* Stmt::accept with the Interpreter as visitor
IAcceptStmt(s, p, st) ==
    CASE s.t = "Expression" -> IVisitExpr(s, p, st)
      [] s.t = "Print" -> IVisitPrint(s, p, st)
      [] s.t = "VarDecl" -> IVisitVarDecl(s, p, st)
      [] s.t = "Block" -> IVisitBlock(s, p, st)
      [] s.t = "If" -> IVisitIf(s, p, st)
      [] s.t = "While" -> IVisitWhile(s, p, st)
      [] s.t = "FunDecl" -> IVisitFunDecl(s, p, st)
      [] s.t = "Return" -> IVisitReturn(s, p, st)
      [] s.t = "ClassDecl" -> IVisitClass(s, p, st)

----------------------------------------------------------------------------
(* The parser (parser.rs).                                                 *)

\* Parser::new(tokens).parse(): the list of results.  p is Parser.current;
\* the result of a production is the position after it with the node it
\* built, or its error.
Parse(tokens) ==
    LET RECURSIVE production(_, _, _), program_loop(_, _)

        ok(p, v) == [p |-> p, ok |-> TRUE, v |-> v, msg |-> ""]

        err(p, m) == [p |-> p, ok |-> FALSE, v |-> Nil, msg |-> m]

        \* `let a = <production>?; <rest>`
        try(a, Rest(_)) == Then(a, LAMBDA x : IF x.ok THEN Rest(x) ELSE x)

        peek(p) == tokens[p + 1]

        is_at_end(p) == peek(p).token_type = "Eof"

        check(p, token_type) == peek(p).token_type = token_type

        previous(p) == tokens[p]

        advance(p) == IF ~is_at_end(p) THEN p + 1 ELSE p

        ismatch(p, types) ==
            IF \E token_type \in types : check(p, token_type)
            THEN [p |-> advance(p), b |-> TRUE]
            ELSE [p |-> p, b |-> FALSE]

        consume(p, token_type, message) ==
            IF check(p, token_type)
            THEN ok(advance(p), previous(advance(p)))
            ELSE err(p, message)

        \* the productions, each a case of production below
        primary(p) == production("primary", p, 0)

        arguments_loop(p, arguments) == production("arguments_loop", p, arguments)

        finish_call(p, callee) == production("finish_call", p, callee)

        call_loop(r) == production("call_loop", r, 0)

        call(p) == production("call", p, 0)

        unary(p) == production("unary", p, 0)

        operand(level, p) == production("operand", p, level)

        binary_loop(level, r0) == production("binary_loop", r0, level)

        factor(p) == production("factor", p, 0)

        term(p) == production("term", p, 0)

        comparison(p) == production("comparison", p, 0)

        equality(p) == production("equality", p, 0)

        and(p) == production("and", p, 0)

        or_loop(r) == production("or_loop", r, 0)

        or(p) == production("or", p, 0)

        assigment(p) == production("assigment", p, 0)

        expr_stmt(p) == production("expr_stmt", p, 0)

        print_stmt(p) == production("print_stmt", p, 0)

        block_loop(p, statements) == production("block_loop", p, statements)

        block(p) == production("block", p, 0)

        var_decl(p) == production("var_decl", p, 0)

        parameters_loop(p, parameters) == production("parameters_loop", p, parameters)

        fun_decl(p, kind) == production("fun_decl", p, kind)

        methods_loop(p, methods) == production("methods_loop", p, methods)

        class_decl(p) == production("class_decl", p, 0)

        if_stmt(p) == production("if_stmt", p, 0)

        return_stmt(p) == production("return_stmt", p, 0)

        for_stmt(p) == production("for_stmt", p, 0)

        while_stmt(p) == production("while_stmt", p, 0)

        expression(p) == production("expression", p, 0)

        statement(p) == production("statement", p, 0)

        declaration(p) == production("declaration", p, 0)

        production(rule, p, arg) ==
            CASE rule = "primary" ->
                    IF check(p, "False") THEN ok(advance(p), Literal(BoolV(FALSE)))
                    ELSE IF check(p, "True")
                    THEN ok(advance(p), Literal(BoolV(TRUE)))
                    ELSE IF check(p, "Nil") THEN ok(advance(p), Literal(Nil))
                    ELSE IF check(p, "String") \/ check(p, "Number")
                    THEN ok(advance(p), Literal(peek(p).literal))
                    ELSE IF check(p, "LeftParen")
                    THEN try(expression(advance(p)), LAMBDA e :
                            try(consume(e.p, "RightParen",
                                        "Expected ')' after expression."),
                                LAMBDA t : ok(t.p, Grouping(e.v))))
                    ELSE IF check(p, "This")
                    THEN ok(advance(p), This(peek(p).line))
                    ELSE IF check(p, "Super")
                    THEN try(consume(advance(p), "Dot", "Expect '.' after 'super'."),
                             LAMBDA d :
                            try(consume(d.p, "Identifier",
                                        "Expect superclass method name."),
                                LAMBDA method :
                                   ok(method.p,
                                      Super(peek(p).line, method.v.lexeme))))
                    ELSE IF check(p, "Identifier")
                    THEN ok(advance(p), Var(peek(p).lexeme, peek(p).line))
                    ELSE err(p, "Invalid type")
                \* the loop of finish_call; r carries the arguments parsed so far
              [] rule = "arguments_loop" ->
                    Then(arg, LAMBDA arguments :
                        IF Len(arguments) >= 255
                        THEN err(p, "Cannot have more than 255 arguments.")
                        ELSE try(expression(p), LAMBDA e :
                                Then(ismatch(e.p, {"Comma"}), LAMBDA m :
                                    IF m.b THEN arguments_loop(m.p, Append(arguments, e.v))
                                    ELSE ok(m.p, Append(arguments, e.v)))))
              [] rule = "finish_call" ->
                    Then(arg, LAMBDA callee :
                        try(IF ~check(p, "RightParen") THEN arguments_loop(p, <<>>)
                            ELSE ok(p, <<>>),
                            LAMBDA arguments :
                               try(consume(arguments.p, "RightParen",
                                           "Expect ')' after arguments."),
                                   LAMBDA paren : ok(paren.p, Call(callee, arguments.v)))))
                \* the loop of call over the expression built so far
              [] rule = "call_loop" ->
                    Then(p, LAMBDA r :
                        Then(ismatch(r.p, {"LeftParen"}), LAMBDA m :
                            IF m.b THEN try(finish_call(m.p, r.v), call_loop)
                            ELSE Then(ismatch(m.p, {"Dot"}), LAMBDA d :
                                    IF d.b
                                    THEN try(consume(d.p, "Identifier",
                                                 "Expect property name after '.'."),
                                             LAMBDA name :
                                                call_loop(ok(name.p,
                                                             Get(r.v, name.v.lexeme))))
                                    ELSE r)))
              [] rule = "call" ->
                    try(primary(p), call_loop)
                \* Operator::from_token names the operator after the token's kind
              [] rule = "unary" ->
                    Then(ismatch(p, {"Bang", "Minus"}), LAMBDA m :
                        IF m.b
                        THEN try(factor(m.p), LAMBDA right :
                                ok(right.p,
                                   Unary(previous(m.p).token_type, right.v)))
                        ELSE call(p))
                \* the operand productions and the operators of the four levels of
                \* left-associative binary operators
              [] rule = "operand" ->
                    Then(arg, LAMBDA level :
                        CASE level = "equality" -> binary_loop("comparison",
                                                               operand("comparison", p))
                          [] level = "comparison" -> binary_loop("term",
                                                                 operand("term", p))
                          [] level = "term" -> factor(p)
                          [] level = "factor" -> unary(p))
                \* the while loop of equality, comparison, term and factor
              [] rule = "binary_loop" ->
                    Then(p, LAMBDA r0 : Then(arg, LAMBDA level :
                        Then(r0, LAMBDA r :
                        IF ~r.ok THEN r
                        ELSE Then(ismatch(r.p,
                                      CASE level = "equality" ->
                                              {"BangEqual", "EqualEqual"}
                                        [] level = "comparison" ->
                                              {"Greater", "GreaterEqual",
                                               "Less", "LessEqual"}
                                        [] level = "term" -> {"Minus", "Plus"}
                                        [] level = "factor" -> {"Slash", "Star"}),
                                  LAMBDA m :
                                IF ~m.b THEN r
                                ELSE try(operand(level, m.p), LAMBDA right :
                                        binary_loop(level,
                                            ok(right.p,
                                               Binary(r.v, previous(m.p).token_type,
                                                      right.v))))))))
              [] rule = "factor" ->
                    binary_loop("factor", operand("factor", p))
              [] rule = "term" ->
                    binary_loop("term", operand("term", p))
              [] rule = "comparison" ->
                    binary_loop("comparison", operand("comparison", p))
              [] rule = "equality" ->
                    binary_loop("equality", operand("equality", p))
              [] rule = "and" ->
                    try(equality(p), LAMBDA left :
                        Then(ismatch(left.p, {"And"}), LAMBDA m :
                            IF ~m.b THEN left
                            ELSE try(and(m.p), LAMBDA right :
                                    ok(right.p, Logical(left.v, "And", right.v)))))
                \* the while loop of or
              [] rule = "or_loop" ->
                    Then(p, LAMBDA r :
                        Then(ismatch(r.p, {"Or"}), LAMBDA m :
                            IF ~m.b THEN r
                            ELSE try(and(m.p), LAMBDA right :
                                    or_loop(ok(right.p, Logical(r.v, "Or", right.v))))))
              [] rule = "or" ->
                    try(and(p), or_loop)
              [] rule = "assigment" ->
                    try(or(p), LAMBDA expr :
                        Then(ismatch(expr.p, {"Equal"}), LAMBDA m :
                            IF ~m.b THEN expr
                            ELSE try(assigment(m.p), LAMBDA value :
                                    CASE expr.v.t = "Var" ->
                                            ok(value.p, Assign(expr.v.name,
                                                               expr.v.line, value.v))
                                      [] expr.v.t = "Get" ->
                                            ok(value.p, Set(expr.v.object,
                                                            expr.v.name, value.v))
                                      [] OTHER ->
                                            err(value.p, "Error at '=': Invalid assignment target."))))
              [] rule = "expr_stmt" ->
                    try(expression(p), LAMBDA value :
                        try(consume(value.p, "Semicolon", "Expect ';' after value."),
                            LAMBDA t : ok(t.p, Expression(value.v))))
              [] rule = "print_stmt" ->
                    try(expression(p), LAMBDA value :
                        try(consume(value.p, "Semicolon", "Expect ';' after value."),
                            LAMBDA t : ok(t.p, PrintStmt(value.v))))
                \* the while loop of block
              [] rule = "block_loop" ->
                    Then(arg, LAMBDA statements :
                        Then(ismatch(p, {"RightBrace"}), LAMBDA m :
                            IF ~m.b /\ ~is_at_end(m.p)
                            THEN try(declaration(m.p), LAMBDA s :
                                    block_loop(s.p, Append(statements, s.v)))
                            ELSE ok(m.p, statements)))
              [] rule = "block" ->
                    block_loop(p, <<>>)
              [] rule = "var_decl" ->
                    try(consume(p, "Identifier", "Expect variable name."),
                        LAMBDA name :
                           try(IF check(name.p, "Equal")
                               THEN expression(advance(name.p))
                               ELSE ok(name.p, Literal(Nil)),
                               LAMBDA value :
                                  try(consume(value.p, "Semicolon",
                                          "Expect ';' after variable declaration."),
                                      LAMBDA t :
                                         ok(t.p, VarDecl(name.v.lexeme, value.v)))))
                \* the loop of fun_decl over the parameters
              [] rule = "parameters_loop" ->
                    Then(arg, LAMBDA parameters :
                        IF Len(parameters) >= 255
                        THEN err(p, "Cannot have more than 255 arguments.")
                        ELSE try(consume(p, "Identifier", "Expect parameter name."),
                                 LAMBDA token :
                                Then(ismatch(token.p, {"Comma"}), LAMBDA m :
                                    IF m.b
                                    THEN parameters_loop(
                                             m.p, Append(parameters, token.v.lexeme))
                                    ELSE ok(m.p, Append(parameters, token.v.lexeme)))))
              [] rule = "fun_decl" ->
                    Then(arg, LAMBDA kind :
                        try(consume(p, "Identifier", "Expect " \o kind \o " name."),
                            LAMBDA name :
                        try(consume(name.p, "LeftParen",
                                    "Expect '(' after " \o kind \o " name."),
                            LAMBDA l :
                        try(IF ~check(l.p, "RightParen") THEN parameters_loop(l.p, <<>>)
                            ELSE ok(l.p, <<>>),
                            LAMBDA parameters :
                        try(consume(parameters.p, "RightParen",
                                    "Expect ')' after parameters."),
                            LAMBDA r :
                        try(consume(r.p, "LeftBrace",
                                    "Expect '{' before " \o kind \o " body."),
                            LAMBDA b :
                        try(block(b.p), LAMBDA body :
                            ok(body.p, FunDecl(name.v.lexeme, parameters.v, body.v)))))))))
                \* the while loop of class_decl over the methods
              [] rule = "methods_loop" ->
                    Then(arg, LAMBDA methods :
                        IF ~check(p, "RightBrace") /\ ~is_at_end(p)
                        THEN try(fun_decl(p, "method"), LAMBDA method :
                                methods_loop(method.p, Append(methods, method.v)))
                        ELSE ok(p, methods))
              [] rule = "class_decl" ->
                    try(consume(p, "Identifier", "Expect class name."), LAMBDA name :
                    try(IF check(name.p, "Less")
                        THEN try(consume(advance(name.p), "Identifier",
                                         "Expect superclass name."),
                                 LAMBDA s : ok(s.p, Var(s.v.lexeme, s.v.line)))
                        ELSE ok(name.p, NoSuperclass),
                        LAMBDA superclass :
                    try(consume(superclass.p, "LeftBrace",
                                "Expect '{' before class body."),
                        LAMBDA l :
                    try(methods_loop(l.p, <<>>), LAMBDA methods :
                    try(consume(methods.p, "RightBrace",
                                "Expect '}' after class body."),
                        LAMBDA r :
                        ok(r.p, ClassDecl(name.v.lexeme, methods.v,
                                          superclass.v)))))))
              [] rule = "if_stmt" ->
                    try(consume(p, "LeftParen", "Expect '(' after 'if'."), LAMBDA l :
                    try(expression(l.p), LAMBDA condition :
                    try(consume(condition.p, "RightParen",
                                "Expect ')' after if condition"),
                        LAMBDA r :
                    try(statement(r.p), LAMBDA true_branch :
                    try(IF check(true_branch.p, "Else")
                        THEN statement(advance(true_branch.p))
                        ELSE ok(true_branch.p, Expression(Literal(Nil))),
                        LAMBDA false_branch :
                        ok(false_branch.p,
                           If(condition.v, true_branch.v, false_branch.v)))))))
              [] rule = "return_stmt" ->
                    try(IF ~check(p, "Semicolon") THEN expression(p)
                        ELSE ok(p, Literal(Nil)),
                        LAMBDA value :
                           try(consume(value.p, "Semicolon",
                                       "Expect ';' after return value."),
                               LAMBDA t :
                                  ok(t.p, Return(previous(p).line, value.v))))
                \* the value of an Option production is a sequence of at most one
              [] rule = "for_stmt" ->
                    try(consume(p, "LeftParen", "Expect '(' after 'if'."), LAMBDA l :
                    try(IF check(l.p, "Semicolon") THEN ok(advance(l.p), <<>>)
                        ELSE try(IF check(l.p, "Var") THEN var_decl(advance(l.p))
                                 ELSE expr_stmt(l.p),
                                 LAMBDA s : ok(s.p, <<s.v>>)),
                        LAMBDA initializer :
                    try(IF ~check(initializer.p, "Semicolon")
                        THEN try(expression(initializer.p),
                                 LAMBDA e : ok(e.p, <<e.v>>))
                        ELSE ok(initializer.p, <<>>),
                        LAMBDA condition :
                    try(consume(condition.p, "Semicolon",
                                "Expect ';' after loop condition."),
                        LAMBDA s1 :
                    try(IF ~check(s1.p, "RightParen")
                        THEN try(expression(s1.p), LAMBDA e : ok(e.p, <<e.v>>))
                        ELSE ok(s1.p, <<>>),
                        LAMBDA increment :
                    try(consume(increment.p, "RightParen",
                                "Expect ';' after loop condition."),
                        LAMBDA r :
                    try(statement(r.p), LAMBDA body :
                        ok(body.p, ForStmt(initializer.v, condition.v,
                                           increment.v, body.v)))))))))
              [] rule = "while_stmt" ->
                    try(consume(p, "LeftParen", "Expect '(' after 'if'."), LAMBDA l :
                    try(expression(l.p), LAMBDA condition :
                    try(consume(condition.p, "RightParen",
                                "Expect ')' after if condition"),
                        LAMBDA r :
                    try(statement(r.p), LAMBDA body :
                        ok(body.p, While(condition.v, body.v))))))
              [] rule = "expression" ->
                    assigment(p)
              [] rule = "statement" ->
                    IF check(p, "Print") THEN print_stmt(advance(p))
                    ELSE IF check(p, "LeftBrace")
                    THEN try(block(advance(p)),
                             LAMBDA b : ok(b.p, Block(b.v)))
                    ELSE IF check(p, "If") THEN if_stmt(advance(p))
                    ELSE IF check(p, "While") THEN while_stmt(advance(p))
                    ELSE IF check(p, "For") THEN for_stmt(advance(p))
                    ELSE IF check(p, "Return") THEN return_stmt(advance(p))
                    ELSE expr_stmt(p)
              [] rule = "declaration" ->
                    IF check(p, "Var") THEN var_decl(advance(p))
                    ELSE IF check(p, "Fun")
                    THEN fun_decl(advance(p), "function")
                    ELSE IF check(p, "Class") THEN class_decl(advance(p))
                    ELSE statement(p)

        \* the while loop of program
        program_loop(p, program) ==
            IF is_at_end(p) THEN program
            ELSE Then(declaration(p), LAMBDA stmt :
                    IF stmt.ok
                    THEN program_loop(stmt.p,
                             Append(program, [ok |-> TRUE, v |-> stmt.v,
                                              msg |-> ""]))
                    ELSE <<[ok |-> FALSE, v |-> Nil, msg |-> stmt.msg]>>)

    IN program_loop(0, <<>>)

----------------------------------------------------------------------------
(* The bytecode backend (compiler/): the single-pass Pratt compiler and    *)
(* the stack VM.  The input of the compiler is the sequence of tokens the  *)
(* scanner yields for the source, Eof last.  An instruction is a record    *)
(* [op, arg]: a Constant carries its value, DefineGlobal, GetGlobal and    *)
(* SetGlobal their name, GetLocal and SetLocal their slot.                 *)

\* The tokens of a source given by its lexemes, each on a line of its own:
\* the Token of each with its kind, line and literal, then Eof.
Tokens(lexemes) ==
    LET punctuation ==
            [s \in {"(", ")", "{", "}", ",", ".", "-", "+", ";", "/", "*",
                    "!", "!=", "=", "==", ">", ">=", "<", "<="} |->
                CASE s = "(" -> "LeftParen" [] s = ")" -> "RightParen"
                  [] s = "{" -> "LeftBrace" [] s = "}" -> "RightBrace"
                  [] s = "," -> "Comma" [] s = "." -> "Dot"
                  [] s = "-" -> "Minus" [] s = "+" -> "Plus"
                  [] s = ";" -> "Semicolon" [] s = "/" -> "Slash"
                  [] s = "*" -> "Star" [] s = "!" -> "Bang"
                  [] s = "!=" -> "BangEqual" [] s = "=" -> "Equal"
                  [] s = "==" -> "EqualEqual" [] s = ">" -> "Greater"
                  [] s = ">=" -> "GreaterEqual" [] s = "<" -> "Less"
                  [] s = "<=" -> "LessEqual"]
        keywords ==
            [and |-> "And", class |-> "Class", else |-> "Else",
             false |-> "False", for |-> "For", fun |-> "Fun", if |-> "If",
             nil |-> "Nil", or |-> "Or", print |-> "Print",
             return |-> "Return", super |-> "Super", this |-> "This",
             true |-> "True", var |-> "Var", while |-> "While"]
        strings == [s \in {"\"a\"", "\"b\""} |->
                      IF s = "\"a\"" THEN "a" ELSE "b"]
        numbers == {n \in 0 .. 9 : TRUE}
        kind(s) ==
            IF s \in DOMAIN punctuation THEN punctuation[s]
            ELSE IF s \in DOMAIN keywords THEN keywords[s]
            ELSE IF s \in DOMAIN strings THEN "String"
            ELSE IF \E n \in numbers : ToString(n) = s THEN "Number"
            ELSE "Identifier"
        literal(s) ==
            IF s \in DOMAIN strings THEN Str(strings[s])
            ELSE IF \E n \in numbers : ToString(n) = s
            THEN Num(CHOOSE n \in numbers : ToString(n) = s)
            ELSE Nil
    IN [i \in 1 .. Len(lexemes) + 1 |->
          IF i <= Len(lexemes)
          THEN [token_type |-> kind(lexemes[i]), lexeme |-> lexemes[i],
                line |-> i, literal |-> literal(lexemes[i])]
          ELSE [token_type |-> "Eof", lexeme |-> "", line |-> i,
                literal |-> Nil]]

\* Compiler::new followed by Compiler::compile: the Compiler after the
\* source was compiled.  c is the Compiler; `at` is the scanner's position.
\* ghost: a Local remembers the scope depth it was declared at (scope),
\* whether its declaration was completed (complete) and whether its block
\* was left (dead); scopes logs each end_scope, refs each named_variable,
\* marks the end of each declaration.
Compile(tokens) ==
    LET RECURSIVE scan(_), sync_loop(_), parse_precedence(_, _),
                  infix_loop(_, _, _), declaration(_), block(_),
                  end_scope_loop(_), declare_loop(_, _), compile_loop(_)

        Prec == [None |-> 0, Assignment |-> 1, Or |-> 2, And |-> 3,
                 Equality |-> 4, Comparison |-> 5, Term |-> 6, Factor |-> 7,
                 Unary |-> 8, Call |-> 9, Primary |-> 10]

        \* Precedence::next
        next(p) == IF p + 1 <= Prec.Primary THEN p + 1 ELSE Prec.None

        new == [at |-> 1,
                current |-> tokens[1],
                previous |-> [token_type |-> "Eof", lexeme |-> "", line |-> 0,
                             literal |-> Nil],
                had_error |-> FALSE,
                panic_mode |-> FALSE,
                code |-> <<>>,
                locals |-> <<>>,
                scope_depth |-> 0,
                out |-> <<>>,
                scopes |-> <<>>, refs |-> <<>>, marks |-> <<>>]

        error_at(c0, token, message) ==
            Then(c0, LAMBDA c :
            IF c.panic_mode THEN c
            ELSE [c EXCEPT
                    !.out = Append(@, [where |-> IF token.token_type = "Eof"
                                                 THEN "end" ELSE "line",
                                       line |-> token.line,
                                       msg |-> message]),
                    !.had_error = TRUE])

        error_at_current(c0, message) ==
            Then(c0, LAMBDA c : error_at(c, c.current, message))

        error(c0, message) ==
            Then(c0, LAMBDA c : error_at(c, c.previous, message))

        \* the loop of advance: scan_token gives Eof again at the end
        scan(c0) ==
            Then([c0 EXCEPT !.at = IF @ < Len(tokens) THEN @ + 1 ELSE @],
                 LAMBDA c1 :
                Then([c1 EXCEPT !.current = tokens[c1.at]], LAMBDA c2 :
                    IF c2.current.token_type # "Error" THEN c2
                    ELSE scan(error_at_current(c2, c2.current.lexeme))))

        advance(c0) ==
            Then(c0, LAMBDA c : scan([c EXCEPT !.previous = c.current]))

        check(c, token_type) == c.current.token_type = token_type

        match_next(c0, token_type) ==
            Then(c0, LAMBDA c :
                IF ~check(c, token_type) THEN [c |-> c, b |-> FALSE]
                ELSE [c |-> advance(c), b |-> TRUE])

        consume(c0, token_type, message) ==
            Then(c0, LAMBDA c :
                IF c.current.token_type = token_type THEN advance(c)
                ELSE error_at_current(c, message))

        emit_byte(c, byte) == [c EXCEPT !.code = Append(@, byte)]

        emit_op(c, op) == emit_byte(c, [op |-> op, arg |-> 0])

        \* Chunk::add_constant: the constant is inlined in the opcode
        emit_constant(c, value) ==
            emit_byte(c, [op |-> "Constant", arg |-> value])

        get_rule(token_type) ==
            CASE token_type = "LeftParen" ->
                    [prefix |-> "grouping", infix |-> "None",
                     precedence |-> Prec.None]
              [] token_type = "Minus" ->
                    [prefix |-> "unary", infix |-> "binary",
                     precedence |-> Prec.Term]
              [] token_type = "Plus" ->
                    [prefix |-> "None", infix |-> "binary",
                     precedence |-> Prec.Term]
              [] token_type \in {"Slash", "Star"} ->
                    [prefix |-> "None", infix |-> "binary",
                     precedence |-> Prec.Factor]
              [] token_type = "Number" ->
                    [prefix |-> "number", infix |-> "None",
                     precedence |-> Prec.None]
              [] token_type \in {"False", "True", "Nil"} ->
                    [prefix |-> "literal", infix |-> "None",
                     precedence |-> Prec.None]
              [] token_type = "Bang" ->
                    [prefix |-> "unary", infix |-> "None",
                     precedence |-> Prec.None]
              [] token_type \in {"BangEqual", "EqualEqual"} ->
                    [prefix |-> "None", infix |-> "binary",
                     precedence |-> Prec.Equality]
              [] token_type \in {"Greater", "GreaterEqual",
                                 "Less", "LessEqual"} ->
                    [prefix |-> "None", infix |-> "binary",
                     precedence |-> Prec.Comparison]
              [] token_type = "String" ->
                    [prefix |-> "string", infix |-> "None",
                     precedence |-> Prec.None]
              [] token_type = "Identifier" ->
                    [prefix |-> "variable", infix |-> "None",
                     precedence |-> Prec.None]
              [] OTHER ->
                    [prefix |-> "None", infix |-> "None",
                     precedence |-> Prec.None]

        expression(c) == parse_precedence(c, Prec.Assignment)

        binary(c) ==
            Then(parse_precedence(
                     c, next(get_rule(c.previous.token_type).precedence)),
                 LAMBDA c1 :
                CASE c.previous.token_type = "Plus" -> emit_op(c1, "Add")
                  [] c.previous.token_type = "Minus" ->
                        emit_op(c1, "Subtract")
                  [] c.previous.token_type = "Star" ->
                        emit_op(c1, "Multiply")
                  [] c.previous.token_type = "Slash" ->
                        emit_op(c1, "Divide")
                  [] c.previous.token_type = "BangEqual" ->
                        emit_op(emit_op(c1, "Equal"), "Not")
                  [] c.previous.token_type = "EqualEqual" ->
                        emit_op(c1, "Equal")
                  [] c.previous.token_type = "Greater" ->
                        emit_op(c1, "Greater")
                  [] c.previous.token_type = "GreaterEqual" ->
                        emit_op(emit_op(c1, "Less"), "Not")
                  [] c.previous.token_type = "Less" -> emit_op(c1, "Less")
                  [] c.previous.token_type = "LessEqual" ->
                        emit_op(emit_op(c1, "Greater"), "Not"))

        grouping(c) ==
            consume(expression(c), "RightParen",
                    "Expect ')' after expression.")

        \* lexeme.parse::<f64>() of a one-digit lexeme
        number(c) ==
            emit_constant(c, Num(CHOOSE n \in 0 .. 9 :
                                    ToString(n) = c.previous.lexeme))

        unary(c) ==
            Then(parse_precedence(c, Prec.Unary), LAMBDA c1 :
                CASE c.previous.token_type = "Bang" -> emit_op(c1, "Not")
                  [] c.previous.token_type = "Minus" ->
                        emit_op(c1, "Negate"))

        literal(c) ==
            CASE c.previous.token_type = "False" -> emit_op(c, "False")
              [] c.previous.token_type = "True" -> emit_op(c, "True")
              [] c.previous.token_type = "Nil" -> emit_op(c, "Nil")

        string(c) == emit_constant(c, Str(c.previous.lexeme))

        resolve_local(c, name) ==
            Then({i \in 1 .. Len(c.locals) : c.locals[i].var.lexeme = name},
                 LAMBDA found :
                IF found = {} THEN [c |-> c, arg |-> -1]
                ELSE Then(CHOOSE i \in found : \A j \in found : j <= i,
                          LAMBDA i :
                         [c |-> IF c.locals[i].depth = -1
                                THEN error(c, "Cannot read local variable in its own initializer.")
                                ELSE c,
                          arg |-> i - 1]))

        \* ghost: the reference just compiled; alive are the slots of the
        \* locals of this name whose block is still open
        ref(c0, r, set) ==
            Then({i \in 1 .. Len(c0.locals) :
                     /\ c0.locals[i].var.lexeme = c0.previous.lexeme
                     /\ ~c0.locals[i].dead},
                 LAMBDA alive :
                Then(IF alive = {} THEN 0
                     ELSE CHOOSE i \in alive : \A j \in alive : j <= i,
                     LAMBDA i :
                    [name |-> c0.previous.lexeme,
                     line |-> c0.previous.line,
                     arg |-> r.arg,
                     set |-> set,
                     reported |-> Len(r.c.out) > Len(c0.out),
                     local |-> i # 0,
                     complete |-> i # 0 /\ c0.locals[i].complete,
                     slot |-> i - 1]))

        named_variable(c0, can_assign) ==
            Then(resolve_local(c0, c0.previous.lexeme), LAMBDA r :
                Then(match_next(r.c, "Equal"), LAMBDA m :
                    Then([m.c EXCEPT
                            !.refs = Append(@, ref(c0, r, can_assign /\ m.b))],
                         LAMBDA c1 :
                        IF can_assign /\ m.b
                        THEN emit_byte(expression(c1),
                                 IF r.arg # -1
                                 THEN [op |-> "SetLocal", arg |-> r.arg]
                                 ELSE [op |-> "SetGlobal",
                                       arg |-> c0.previous.lexeme])
                        ELSE emit_byte(c1,
                                 IF r.arg # -1
                                 THEN [op |-> "GetLocal", arg |-> r.arg]
                                 ELSE [op |-> "GetGlobal",
                                       arg |-> c0.previous.lexeme]))))

        variable(c, can_assign) == named_variable(c, can_assign)

        \* the call of a ParseRule's function
        rule_fn(f, c, can_assign) ==
            CASE f = "grouping" -> grouping(c)
              [] f = "unary" -> unary(c)
              [] f = "binary" -> binary(c)
              [] f = "number" -> number(c)
              [] f = "literal" -> literal(c)
              [] f = "string" -> string(c)
              [] f = "variable" -> variable(c, can_assign)

        \* the while loop of parse_precedence
        infix_loop(c, precedence, can_assign) ==
            IF ~(precedence <= get_rule(c.current.token_type).precedence)
            THEN c
            ELSE Then(advance(c), LAMBDA c1 :
                    IF get_rule(c1.previous.token_type).infix = "None"
                    THEN c1
                    ELSE infix_loop(
                             rule_fn(get_rule(c1.previous.token_type).infix,
                                     c1, can_assign),
                             precedence, can_assign))

        parse_precedence(c0, precedence) ==
            Then(advance(c0), LAMBDA c :
                IF get_rule(c.previous.token_type).prefix = "None"
                THEN error(c, "Expect expression.")
                ELSE Then(infix_loop(
                              rule_fn(get_rule(c.previous.token_type).prefix,
                                      c, precedence <= Prec.Assignment),
                              precedence, precedence <= Prec.Assignment),
                          LAMBDA c2 :
                         IF precedence <= Prec.Assignment
                            /\ check(c2, "Equal")
                         THEN error(advance(c2), "Invalid assignment target.")
                         ELSE c2))

        add_local(c0, var) ==
            Then(c0, LAMBDA c :
                IF Len(c.locals) = 255
                THEN error(c, "Too many local variables in function.")
                ELSE [c EXCEPT !.locals =
                         Append(@, [var |-> var, depth |-> -1,
                                    scope |-> c.scope_depth,
                                    complete |-> FALSE, dead |-> FALSE])])

        \* the loop of declare_variable over the locals, innermost first
        declare_loop(c0, i) ==
            Then(c0, LAMBDA c :
            IF i = 0 THEN c
            ELSE IF c.locals[i].depth # -1
                    /\ c.locals[i].depth < c.scope_depth
            THEN c
            ELSE declare_loop(
                     IF c.previous.lexeme = c.locals[i].var.lexeme
                     THEN error(c, "Already a variable with this name in this scope.")
                     ELSE c,
                     i - 1))

        declare_variable(c0) ==
            Then(c0, LAMBDA c :
                IF c.scope_depth = 0 THEN c
                ELSE add_local(declare_loop(c, Len(c.locals)), c.previous))

        parse_variable(c, error_message) ==
            Then(declare_variable(consume(c, "Identifier", error_message)),
                 LAMBDA c1 :
                [c |-> c1,
                 name |-> IF c1.scope_depth > 0 THEN ""
                          ELSE c1.previous.lexeme])

        \* ghost: the declaration of the local is complete
        define_variable(c0, name) ==
            Then(c0, LAMBDA c :
                IF c.scope_depth > 0
                THEN IF c.locals = <<>> THEN c
                     ELSE [c EXCEPT !.locals[Len(c.locals)].complete = TRUE]
                ELSE emit_byte(c, [op |-> "DefineGlobal", arg |-> name]))

        var_declaration(c) ==
            Then(parse_variable(c, "Expect variable name."), LAMBDA g :
                Then(match_next(g.c, "Equal"), LAMBDA m :
                    define_variable(
                        consume(IF m.b THEN expression(m.c)
                                ELSE emit_op(m.c, "Nil"),
                                "Semicolon",
                                "Expect ';' after variable declaration."),
                        g.name)))

        print_statement(c) ==
            emit_op(consume(expression(c), "Semicolon",
                            "Expect ';' after value."),
                    "Print")

        expression_statement(c) ==
            consume(expression(c), "Semicolon",
                    "Expect ';' after expression.")

        statement(c) ==
            Then(match_next(c, "Print"), LAMBDA m :
                IF m.b THEN print_statement(m.c)
                ELSE expression_statement(m.c))

        begin_scope(c) == [c EXCEPT !.scope_depth = @ + 1]

        \* the while loop of end_scope
        end_scope_loop(c0) ==
            Then(c0, LAMBDA c :
                IF c.locals # <<>>
                   /\ c.locals[Len(c.locals)].depth > c.scope_depth
                THEN end_scope_loop(
                         [emit_op(c, "Pop") EXCEPT
                            !.locals = SubSeq(@, 1, Len(@) - 1)])
                ELSE c)

        \* ghost: the locals the block declared, how many the list lost, the
        \* Pops emitted, whether a local of the block is left in the list
        end_scope(c00) ==
            Then(c00, LAMBDA c0 :
            Then(end_scope_loop([c0 EXCEPT !.scope_depth = @ - 1]),
                 LAMBDA c :
                [c EXCEPT
                   !.scopes = Append(@,
                      [declared |-> Cardinality(
                           {i \in 1 .. Len(c0.locals) :
                               /\ ~c0.locals[i].dead
                               /\ c0.locals[i].scope > c.scope_depth}),
                       removed |-> Len(c0.locals) - Len(c.locals),
                       pops |-> Len(c.code) - Len(c0.code),
                       left |-> Cardinality(
                           {i \in 1 .. Len(c.locals) :
                               c.locals[i].scope > c.scope_depth})]),
                   !.locals = [i \in 1 .. Len(c.locals) |->
                                 [c.locals[i] EXCEPT !.dead =
                                     @ \/ c.locals[i].scope > c.scope_depth]]]))

        sync_loop(c0) ==
            Then(c0, LAMBDA c :
            IF c.current.token_type = "Eof" THEN c
            ELSE IF c.previous.token_type = "Semicolon" THEN c
            ELSE IF c.current.token_type \in
                      {"Class", "Fun", "Var", "For", "If", "While",
                       "Print", "Return"}
            THEN c
            ELSE sync_loop(advance(c)))

        synchronize(c) == sync_loop([c EXCEPT !.panic_mode = FALSE])

        block(c0) ==
            Then(c0, LAMBDA c :
                IF ~check(c, "RightBrace") /\ ~check(c, "Eof")
                THEN block(declaration(c))
                ELSE consume(c, "RightBrace", "Expect '}' after block."))

        \* ghost: where the code of the declaration ends, and the locals
        \* whose block is open there
        declaration(c0) ==
            Then(match_next(c0, "Var"), LAMBDA v :
                Then(IF v.b THEN var_declaration(v.c)
                     ELSE Then(match_next(v.c, "LeftBrace"), LAMBDA b :
                              IF b.b
                              THEN end_scope(block(begin_scope(b.c)))
                              ELSE statement(b.c)),
                     LAMBDA c1 :
                    Then(IF c1.panic_mode THEN synchronize(c1) ELSE c1,
                         LAMBDA c :
                        [c EXCEPT !.marks = Append(@,
                            [ip |-> Len(c.code),
                             live |-> Cardinality(
                                 {i \in 1 .. Len(c.locals) :
                                     ~c.locals[i].dead})])])))

        \* the while loop of compile
        compile_loop(c0) ==
            Then(match_next(c0, "Eof"), LAMBDA m :
                IF m.b THEN m.c ELSE compile_loop(declaration(m.c)))

    IN emit_op(compile_loop(new), "Return")

\* VM::init_vm.  state follows the VM from init_vm through interpret to the
\* InterpretResult ("Panic": the process aborted); out is what it printed.
\* ghost: compi is the Compiler interpret used; errors counts the calls of
\* runtime_error and the RuntimeError returns, late the instructions read
\* after the first of them; nots and sets log the Not and SetLocal
\* instructions executed.
InitVm ==
    [chunk |-> <<>>,
     ip |-> 0,
     stack |-> <<>>,
     globals |-> EmptyTable,
     state |-> "init",
     out |-> <<>>,
     compi |-> [marks |-> <<>>, scopes |-> <<>>, refs |-> <<>>,
                out |-> <<>>],
     errors |-> 0, late |-> 0, nots |-> <<>>, sets |-> <<>>]

\* one iteration of the loop of VM::run
Run(vm0) ==
    LET push(m, value) == [m EXCEPT !.stack = Append(@, value)]

        \* the stack after Stack::pop
        popped(m) == [m EXCEPT !.stack = SubSeq(@, 1, Len(@) - 1)]

        top(m) == m.stack[Len(m.stack)]

        \* unwrap() of None, an index out of bounds, unreachable!()
        panic(m) == [m EXCEPT !.state = "Panic"]

        println(m, ch, v) ==
            [m EXCEPT !.out = Append(@, [ch |-> ch, v |-> v])]

        reset_stack(m) == [m EXCEPT !.stack = <<>>]

        runtime_error(m, message) ==
            [reset_stack(println(m, "error", message)) EXCEPT
                !.errors = @ + 1]

        \* return InterpretResult::RuntimeError
        failed(m) == [m EXCEPT !.state = "RuntimeError"]

        \* Value::is_falsey
        is_falsey(v) ==
            CASE v.k = "Nil" -> TRUE
              [] v.k = "Bool" -> ~v.b
              [] OTHER -> FALSE

        \* the numbers are integers: Divide is taken on exact quotients
        binary_op(m, op) ==
            IF Len(m.stack) < 2 THEN runtime_error(m, "Stack underflow")
            ELSE Then(popped(popped(m)), LAMBDA m2 :
                LET b == m.stack[Len(m.stack)]
                    a == m.stack[Len(m.stack) - 1]
                IN IF a.k = "Num" /\ b.k = "Num"
                   THEN CASE op = "Add" -> push(m2, Num(a.n + b.n))
                          [] op = "Subtract" -> push(m2, Num(a.n - b.n))
                          [] op = "Multiply" -> push(m2, Num(a.n * b.n))
                          [] op = "Divide" -> push(m2, Num(a.n \div b.n))
                          [] op = "Less" -> push(m2, BoolV(a.n < b.n))
                          [] op = "Greater" -> push(m2, BoolV(a.n > b.n))
                   ELSE IF a.k = "Str" /\ b.k = "Str"
                   THEN IF op = "Add" THEN push(m2, Str(a.s \o b.s))
                        ELSE panic(m2)
                   ELSE runtime_error(m2,
                            "Operands must be two numbers or two strings."))

        \* read_byte
        instruction == vm0.chunk[vm0.ip + 1]

        step(m) ==
            CASE instruction.op = "Return" -> [m EXCEPT !.state = "Ok"]
              [] instruction.op = "Negate" ->
                    IF m.stack # <<>> /\ top(m).k = "Num"
                    THEN println(push(popped(m), Num(0 - top(m).n)),
                                 "negate", top(m))
                    ELSE [failed(IF m.stack = <<>> THEN m ELSE popped(m))
                             EXCEPT !.errors = @ + 1]
              [] instruction.op \in {"Add", "Subtract", "Multiply", "Divide",
                                     "Greater", "Less"} ->
                    binary_op(m, instruction.op)
              [] instruction.op = "Constant" -> push(m, instruction.arg)
              [] instruction.op = "True" -> push(m, BoolV(TRUE))
              [] instruction.op = "False" -> push(m, BoolV(FALSE))
              [] instruction.op = "Nil" -> push(m, Nil)
              [] instruction.op = "Not" ->
                    IF m.stack = <<>> THEN panic(m)
                    ELSE [push(popped(m), BoolV(~is_falsey(top(m))))
                             EXCEPT !.nots = Append(@,
                                [v |-> top(m),
                                 pushed |-> BoolV(~is_falsey(top(m)))])]
              [] instruction.op = "Equal" ->
                    IF Len(m.stack) < 2 THEN panic(m)
                    ELSE push(popped(popped(m)),
                              BoolV(m.stack[Len(m.stack) - 1] = top(m)))
              [] instruction.op = "Print" ->
                    IF m.stack = <<>> THEN panic(m)
                    ELSE println(popped(m), "print", top(m))
              [] instruction.op = "Pop" ->
                    IF m.stack = <<>> THEN panic(m) ELSE popped(m)
              [] instruction.op = "DefineGlobal" ->
                    IF m.stack = <<>> THEN panic(m)
                    ELSE [popped(m) EXCEPT
                            !.globals = Put(@, instruction.arg, top(m))]
              [] instruction.op = "GetGlobal" ->
                    IF instruction.arg \in DOMAIN m.globals
                    THEN push(m, m.globals[instruction.arg])
                    ELSE failed(runtime_error(m, "Undefined variable (get)"))
              [] instruction.op = "SetGlobal" ->
                    IF instruction.arg \in DOMAIN m.globals
                    THEN IF m.stack = <<>> THEN panic(m)
                         ELSE [popped(m) EXCEPT
                                 !.globals = Put(@, instruction.arg, top(m))]
                    ELSE failed(runtime_error(m, "Undefined variable (set)"))
              [] instruction.op = "GetLocal" ->
                    IF instruction.arg >= Len(m.stack) THEN panic(m)
                    ELSE push(m, m.stack[instruction.arg + 1])
              [] instruction.op = "SetLocal" ->
                    IF m.stack = <<>> \/ instruction.arg >= Len(m.stack)
                    THEN panic(m)
                    ELSE [m EXCEPT
                            !.stack[instruction.arg + 1] = m.stack[1],
                            !.sets = Append(@,
                               [slot |-> instruction.arg,
                                top |-> top(m),
                                before |-> m.stack,
                                after |-> [m.stack EXCEPT
                                             ![instruction.arg + 1] =
                                                 m.stack[1]]])]
              [] instruction.op = "JumpIfFalse" ->
                    IF m.stack = <<>> THEN panic(m)
                    ELSE IF is_falsey(top(m))
                    THEN [popped(m) EXCEPT !.ip = @ + instruction.arg]
                    ELSE popped(m)
              [] instruction.op = "Jump" ->
                    [m EXCEPT !.ip = @ + instruction.arg]
              [] instruction.op = "Loop" ->
                    IF instruction.arg > m.ip THEN panic(m)
                    ELSE [m EXCEPT !.ip = @ - instruction.arg]

    IN IF vm0.ip >= Len(vm0.chunk) THEN panic(vm0)
       ELSE step([vm0 EXCEPT !.ip = @ + 1,
                             !.late = IF vm0.errors > 0 THEN @ + 1 ELSE @])

----------------------------------------------------------------------------
(* The environment operations driven one call at a time, as the unit tests *)
(* of interpreter.rs drive them.                                           *)

NoOps == [new |-> 0, drop |-> 0, n |-> 0, last |-> "none",
          pos |-> 0, name |-> ""]

EnvInit ==
    /\ interp = InterpreterNew
    /\ res = OkNone
    /\ panicked = FALSE
    /\ ops = NoOps
    /\ prog = <<>>
    /\ pc = "api"
    /\ idx = 0
    /\ resolver = [scopes |-> ResolverNew.scopes,
                   current_function |-> ResolverNew.current_function,
                   current_class |-> ResolverNew.current_class]
    /\ clean = TRUE
    /\ vm = InitVm

CanCall == ~panicked /\ ops.n < MaxEnvOps

CallNewEnvironment ==
    /\ CanCall
    /\ interp' = NewEnvironment(interp, 0, ApiTag)
    /\ ops' = [ops EXCEPT !.new = @ + 1, !.n = @ + 1, !.last = "new"]
    /\ UNCHANGED <<res, panicked>>
    /\ UNCHANGED driver

CallDropEnvironment ==
    /\ CanCall
    /\ IF DropPanics(interp)
       THEN /\ panicked' = TRUE
            /\ UNCHANGED interp
       ELSE /\ interp' = DropEnvironment(interp)
            /\ UNCHANGED panicked
    /\ ops' = [ops EXCEPT !.drop = @ + 1, !.n = @ + 1, !.last = "drop"]
    /\ UNCHANGED res
    /\ UNCHANGED driver

CallDefineSymbol ==
    /\ CanCall
    /\ \E name \in Names, v \in EnvValues :
          interp' = DefineSymbol(interp, name, v)
    /\ ops' = [ops EXCEPT !.n = @ + 1, !.last = "define"]
    /\ UNCHANGED <<res, panicked>>
    /\ UNCHANGED driver

CallGetSymbolAt ==
    /\ CanCall
    /\ \E pos \in -1 .. 3, name \in Names :
          /\ res' = GetSymbolAt(interp, pos, name)
          /\ ops' = [ops EXCEPT !.n = @ + 1, !.last = "get",
                                !.pos = pos, !.name = name]
    /\ UNCHANGED <<interp, panicked>>
    /\ UNCHANGED driver

EnvNext ==
    \/ CallNewEnvironment
    \/ CallDropEnvironment
    \/ CallDefineSymbol
    \/ CallGetSymbolAt

EnvSpec == EnvInit /\ [][EnvNext]_vars

----------------------------------------------------------------------------
(* Programs.  A program is a list of distinct fragments; every identifier  *)
(* occurrence of a fragment sits on a line of its own.                     *)

\* the fragments, each with the source text it is the parse of
Fragments ==
     \* var g = 1; print g;
    [global |->
        <<VarDecl("g", Literal(Num(1))), PrintStmt(Var("g", 11))>>,
     \* print undef;
     undefined |->
        <<PrintStmt(Var("undef", 21))>>,
     \* var h; { fun bad() { print nope; } h = bad; } { h(); }
     escape |->
        <<VarDecl("h", Literal(Nil)),
          Block(<<FunDecl("bad", <<>>, <<PrintStmt(Var("nope", 31))>>),
                  Expression(Assign("h", 32, Var("bad", 33)))>>),
          Block(<<Expression(Call(Var("h", 34), <<>>))>>)>>,
     \* if (missing) print 1;
     iff |->
        <<IfThen(Var("missing", 41), PrintStmt(Literal(Num(1))))>>,
     \* var inc; var get;
     \* { var n = 0; fun up() { n = n + 1; } fun rd() { return n; }
     \*   inc = up; get = rd; up(); print n; }
     \* inc(); print get();
     counter |->
        <<VarDecl("inc", Literal(Nil)),
          VarDecl("get", Literal(Nil)),
          Block(<<VarDecl("n", Literal(Num(0))),
                  FunDecl("up", <<>>,
                      <<Expression(Assign("n", 51,
                            Binary(Var("n", 52), "Plus", Literal(Num(1)))))>>),
                  FunDecl("rd", <<>>, <<Return(53, Var("n", 54))>>),
                  Expression(Assign("inc", 55, Var("up", 56))),
                  Expression(Assign("get", 57, Var("rd", 58))),
                  Expression(Call(Var("up", 59), <<>>)),
                  PrintStmt(Var("n", 60))>>),
          Expression(Call(Var("inc", 61), <<>>)),
          PrintStmt(Call(Var("get", 62), <<>>))>>,
     \* class A { m() { print k; } }  var k = 1;  A().m();
     method |->
        <<ClassDecl("A", <<FunDecl("m", <<>>, <<PrintStmt(Var("k", 71))>>)>>,
                    NoSuperclass),
          VarDecl("k", Literal(Num(1))),
          Expression(Call(Get(Call(Var("A", 72), <<>>), "m"), <<>>))>>,
     \* class B { m() { return 2; } }
     \* class C < B { m() { return super.m(); } }
     \* print C().m();
     super |->
        <<ClassDecl("B", <<FunDecl("m", <<>>, <<Return(81, Literal(Num(2)))>>)>>,
                    NoSuperclass),
          ClassDecl("C", <<FunDecl("m", <<>>,
                             <<Return(82, Call(Super(83, "m"), <<>>))>>)>>,
                    Var("B", 84)),
          PrintStmt(Call(Get(Call(Var("C", 85), <<>>), "m"), <<>>))>>,
     \* var i = 0; while (i < 2) { i = i + 1; } print i;
     while |->
        <<VarDecl("i", Literal(Num(0))),
          While(Binary(Var("i", 91), "Less", Literal(Num(2))),
                Block(<<Expression(Assign("i", 92,
                          Binary(Var("i", 93), "Plus", Literal(Num(1)))))>>)),
          PrintStmt(Var("i", 94))>>,
     \* fun id(x) { return x; }  print id(lost);
     argument |->
        <<FunDecl("id", <<"x">>, <<Return(101, Var("x", 102))>>),
          PrintStmt(Call(Var("id", 103), <<Var("lost", 104)>>))>>,
     \* fun f() { { return 1; } }  { print f(); }
     return |->
        <<FunDecl("f", <<>>, <<Block(<<Return(111, Literal(Num(1)))>>)>>),
          Block(<<PrintStmt(Call(Var("f", 112), <<>>))>>)>>,
     \* print nil and 1;  print false or (1 == 1);
     logical |->
        <<PrintStmt(Logical(Literal(Nil), "And", Literal(Num(1)))),
          PrintStmt(Logical(Literal(BoolV(FALSE)), "Or",
                            Grouping(Binary(Literal(Num(1)), "EqualEqual",
                                            Literal(Num(1))))))>>,
     \* class P { init(v) { this.v = v; } get() { return this.v; } }
     \* print P(3).get();
     this |->
        <<ClassDecl("P",
            <<FunDecl("init", <<"v">>,
                  <<Expression(Set(This(121), "v", Var("v", 122)))>>),
              FunDecl("get", <<>>, <<Return(123, Get(This(124), "v"))>>)>>,
            NoSuperclass),
          PrintStmt(Call(Get(Call(Var("P", 125), <<Literal(Num(3))>>), "get"),
                         <<>>))>>,
     \* class Q { init() { this.a = 1; return; } }
     \* var q = Q(); print q.a; print q.init().a;
     initreturn |->
        <<ClassDecl("Q",
            <<FunDecl("init", <<>>,
                  <<Expression(Set(This(141), "a", Literal(Num(1)))),
                    Return(142, Literal(Nil))>>)>>,
            NoSuperclass),
          VarDecl("q", Call(Var("Q", 143), <<>>)),
          PrintStmt(Get(Var("q", 144), "a")),
          PrintStmt(Get(Call(Get(Var("q", 145), "init"), <<>>), "a"))>>,
     \* class K {}  var o = K(); o.a = o.b = 1; print o.b;
     setnested |->
        <<ClassDecl("K", <<>>, NoSuperclass),
          VarDecl("o", Call(Var("K", 151), <<>>)),
          Expression(Set(Var("o", 152), "a",
                         Set(Var("o", 153), "b", Literal(Num(1))))),
          PrintStmt(Get(Var("o", 154), "b"))>>,
     \* class Base { m() { return this.n; } }
     \* class Mid < Base { m() { return 0; } t() { { return super.m(); } } }
     \* class Leaf < Mid { m() { return 9; } }
     \* var l = Leaf(); l.n = 7; print l.t();
     \* var d = Mid(); d.n = 5; print d.t();
     superchain |->
        <<ClassDecl("Base",
            <<FunDecl("m", <<>>, <<Return(161, Get(This(162), "n"))>>)>>,
            NoSuperclass),
          ClassDecl("Mid",
            <<FunDecl("m", <<>>, <<Return(163, Literal(Num(0)))>>),
              FunDecl("t", <<>>,
                  <<Block(<<Return(164, Call(Super(165, "m"), <<>>))>>)>>)>>,
            Var("Base", 166)),
          ClassDecl("Leaf",
            <<FunDecl("m", <<>>, <<Return(167, Literal(Num(9)))>>)>>,
            Var("Mid", 168)),
          VarDecl("l", Call(Var("Leaf", 169), <<>>)),
          Expression(Set(Var("l", 170), "n", Literal(Num(7)))),
          PrintStmt(Call(Get(Var("l", 171), "t"), <<>>)),
          VarDecl("d", Call(Var("Mid", 172), <<>>)),
          Expression(Set(Var("d", 173), "n", Literal(Num(5)))),
          PrintStmt(Call(Get(Var("d", 174), "t"), <<>>))>>,
     \* class F { g() { return 1; } }  class G < F {}
     \* var a = G(); var b = G(); a.g = 2;
     \* print a.g; print b.g(); print a.h;
     shadow |->
        <<ClassDecl("F",
            <<FunDecl("g", <<>>, <<Return(181, Literal(Num(1)))>>)>>,
            NoSuperclass),
          ClassDecl("G", <<>>, Var("F", 182)),
          VarDecl("a", Call(Var("G", 183), <<>>)),
          VarDecl("b", Call(Var("G", 184), <<>>)),
          Expression(Set(Var("a", 185), "g", Literal(Num(2)))),
          PrintStmt(Get(Var("a", 186), "g")),
          PrintStmt(Call(Get(Var("b", 187), "g"), <<>>)),
          PrintStmt(Get(Var("a", 188), "h"))>>,
     \* var hits = 0;  fun bump(v) { hits = hits + 1; return v; }
     \* print bump(true) or bump(7);  print hits;
     \* print bump(1) or bump(7);  print hits;
     \* print bump(nil) and bump(7);  print hits;
     \* print bump(false) and bump(7);  print hits;
     \* print bump(2) and bump("s");  print hits;
     shortcircuit |->
        <<VarDecl("hits", Literal(Num(0))),
          FunDecl("bump", <<"v">>,
              <<Expression(Assign("hits", 201,
                    Binary(Var("hits", 202), "Plus", Literal(Num(1))))),
                Return(203, Var("v", 219))>>),
          PrintStmt(Logical(Call(Var("bump", 204), <<Literal(BoolV(TRUE))>>), "Or",
                            Call(Var("bump", 205), <<Literal(Num(7))>>))),
          PrintStmt(Var("hits", 206)),
          PrintStmt(Logical(Call(Var("bump", 207), <<Literal(Num(1))>>), "Or",
                            Call(Var("bump", 208), <<Literal(Num(7))>>))),
          PrintStmt(Var("hits", 209)),
          PrintStmt(Logical(Call(Var("bump", 210), <<Literal(Nil)>>), "And",
                            Call(Var("bump", 211), <<Literal(Num(7))>>))),
          PrintStmt(Var("hits", 212)),
          PrintStmt(Logical(Call(Var("bump", 213), <<Literal(BoolV(FALSE))>>), "And",
                            Call(Var("bump", 214), <<Literal(Num(7))>>))),
          PrintStmt(Var("hits", 215)),
          PrintStmt(Logical(Call(Var("bump", 216), <<Literal(Num(2))>>), "And",
                            Call(Var("bump", 217), <<Literal(Str("s"))>>))),
          PrintStmt(Var("hits", 218))>>,
     \* print 1 == 1;  print nil == 1;  print "a" != "b";
     \* print 1 == "a";  print nil != nil;
     equality |->
        <<PrintStmt(Binary(Literal(Num(1)), "EqualEqual", Literal(Num(1)))),
          PrintStmt(Binary(Literal(Nil), "EqualEqual", Literal(Num(1)))),
          PrintStmt(Binary(Literal(Str("a")), "BangEqual", Literal(Str("b")))),
          PrintStmt(Binary(Literal(Num(1)), "EqualEqual", Literal(Str("a")))),
          PrintStmt(Binary(Literal(Nil), "BangEqual", Literal(Nil)))>>,
     \* var g = g;  { var e = 1; { var e = e; } }
     owninit |->
        <<VarDecl("g", Var("g", 221)),
          Block(<<VarDecl("e", Literal(Num(1))),
                  Block(<<VarDecl("e", Var("e", 222))>>)>>)>>,
     \* fun idf(v) { return v; }  { var c = idf(c); }
     ownargument |->
        <<FunDecl("idf", <<"v">>, <<Return(231, Var("v", 232))>>),
          Block(<<VarDecl("c", Call(Var("idf", 233), <<Var("c", 234)>>))>>)>>,
     \* class V { init() { return 1; } }
     \* class N { init() { fun h() { return 1; } return; } }
     initvalue |->
        <<ClassDecl("V",
            <<FunDecl("init", <<>>, <<Return(241, Literal(Num(1)))>>)>>,
            NoSuperclass),
          ClassDecl("N",
            <<FunDecl("init", <<>>,
                  <<FunDecl("h", <<>>, <<Return(242, Literal(Num(1)))>>),
                    Return(243, Literal(Nil))>>)>>,
            NoSuperclass)>>,
     \* while (true) return 1;
     whilereturn |->
        <<While(Literal(BoolV(TRUE)), Return(251, Literal(Num(1))))>>,
     \* fun w() { { var a = a; } }  return 1;
     returnleak |->
        <<FunDecl("w", <<>>, <<Block(<<VarDecl("a", Var("a", 261))>>)>>),
          Return(262, Literal(Num(1)))>>,
     \* var ticks = 0;  fun tick(v) { ticks = ticks + 1; return v; }
     \* fun loop() { var i = 0;
     \*   while (tick(i < 2)) { i = i + 1; if (i == 2) return i; }
     \*   return 9; }
     \* print loop();  print ticks;
     \* while (tick(true)) print missing;
     \* print ticks;
     whilecarrier |->
        <<VarDecl("ticks", Literal(Num(0))),
          FunDecl("tick", <<"v">>,
              <<Expression(Assign("ticks", 271,
                    Binary(Var("ticks", 272), "Plus", Literal(Num(1))))),
                Return(273, Var("v", 274))>>),
          FunDecl("loop", <<>>,
              <<VarDecl("i", Literal(Num(0))),
                While(Call(Var("tick", 275),
                           <<Binary(Var("i", 276), "Less", Literal(Num(2)))>>),
                      Block(<<Expression(Assign("i", 277,
                                  Binary(Var("i", 278), "Plus",
                                         Literal(Num(1))))),
                              IfThen(Binary(Var("i", 279), "EqualEqual",
                                            Literal(Num(2))),
                                     Return(280, Var("i", 281)))>>)),
                Return(282, Literal(Num(9)))>>),
          PrintStmt(Call(Var("loop", 283), <<>>)),
          PrintStmt(Var("ticks", 284)),
          While(Call(Var("tick", 285), <<Literal(BoolV(TRUE))>>),
                PrintStmt(Var("missing", 286))),
          PrintStmt(Var("ticks", 287))>>,
     \* fun first() { for (var j = 5;; j = j + 1) { return j; } }
     \* var s = 0;
     \* for (var i = 0; i < 2; i = i + 1) { s = s + i; print i; }
     \* print s;  print first();
     forloop |->
        <<FunDecl("first", <<>>,
              <<ForStmt(<<VarDecl("j", Literal(Num(5)))>>, <<>>,
                        <<Assign("j", 291, Binary(Var("j", 292), "Plus",
                                                  Literal(Num(1))))>>,
                        Block(<<Return(293, Var("j", 294))>>))>>),
          VarDecl("s", Literal(Num(0))),
          ForStmt(<<VarDecl("i", Literal(Num(0)))>>,
                  <<Binary(Var("i", 295), "Less", Literal(Num(2)))>>,
                  <<Assign("i", 296, Binary(Var("i", 297), "Plus",
                                            Literal(Num(1))))>>,
                  Block(<<Expression(Assign("s", 298,
                              Binary(Var("s", 299), "Plus", Var("i", 300)))),
                          PrintStmt(Var("i", 301))>>)),
          PrintStmt(Var("s", 302)),
          PrintStmt(Call(Var("first", 303), <<>>))>>,
     \* fun first2() { { var j = 5; while (true) { { return j; } j = j + 1; } } }
     \* var s2 = 0;
     \* { var i = 0; while (i < 2) { { s2 = s2 + i; print i; } i = i + 1; } }
     \* print s2;  print first2();
     fordesugared |->
        <<FunDecl("first2", <<>>,
              <<Block(<<VarDecl("j", Literal(Num(5))),
                        While(Literal(BoolV(TRUE)),
                              Block(<<Block(<<Return(311, Var("j", 312))>>),
                                      Expression(Assign("j", 313,
                                          Binary(Var("j", 314), "Plus",
                                                 Literal(Num(1)))))>>))>>)>>),
          VarDecl("s2", Literal(Num(0))),
          Block(<<VarDecl("i", Literal(Num(0))),
                  While(Binary(Var("i", 315), "Less", Literal(Num(2))),
                        Block(<<Block(<<Expression(Assign("s2", 316,
                                            Binary(Var("s2", 317), "Plus",
                                                   Var("i", 318)))),
                                        PrintStmt(Var("i", 319))>>),
                                Expression(Assign("i", 320,
                                    Binary(Var("i", 321), "Plus",
                                           Literal(Num(1)))))>>))>>),
          PrintStmt(Var("s2", 322)),
          PrintStmt(Call(Var("first2", 323), <<>>))>>,
     \* class I { m() { this.f = 1; } }
     \* var i = I();  i.m();  print i.f;
     \* var j = i;  j.g = 2;  print i.g;
     identity |->
        <<ClassDecl("I",
            <<FunDecl("m", <<>>,
                  <<Expression(Set(This(331), "f", Literal(Num(1))))>>)>>,
            NoSuperclass),
          VarDecl("i", Call(Var("I", 332), <<>>)),
          Expression(Call(Get(Var("i", 333), "m"), <<>>)),
          PrintStmt(Get(Var("i", 334), "f")),
          VarDecl("j", Var("i", 335)),
          Expression(Set(Var("j", 336), "g", Literal(Num(2)))),
          PrintStmt(Get(Var("i", 337), "g"))>>,
     \* return 1;
     topreturn |->
        <<Return(131, Literal(Num(1)))>>]

\* The sources given to both backends, each by its lexemes.
Sources ==
     \* print 1 + 2 * 3;  print 7 - 4;
    [arithmetic |->
        <<"print", "1", "+", "2", "*", "3", ";",
          "print", "7", "-", "4", ";">>,
     \* print -4;
     negate |->
        <<"print", "-", "4", ";">>,
     \* print !false;  print 1 != 2;  print 1 <= 2;  print 2 >= 3;
     negation |->
        <<"print", "!", "false", ";", "print", "1", "!=", "2", ";",
          "print", "1", "<=", "2", ";", "print", "2", ">=", "3", ";">>,
     \* var a = 1;  a = 2;  print a;
     globals |->
        <<"var", "a", "=", "1", ";", "a", "=", "2", ";",
          "print", "a", ";">>,
     \* 1 + true;  print 2;
     typeerror |->
        <<"1", "+", "true", ";", "print", "2", ";">>,
     \* print u;  print 1;
     undefinedglobal |->
        <<"print", "u", ";", "print", "1", ";">>,
     \* { var a = 1; print a; }
     locals |->
        <<"{", "var", "a", "=", "1", ";", "print", "a", ";", "}">>,
     \* { var a = 1; }  print 2;
     blockdecl |->
        <<"{", "var", "a", "=", "1", ";", "}", "print", "2", ";">>,
     \* { var a = 1; { var a = 2; } }
     shadowed |->
        <<"{", "var", "a", "=", "1", ";",
          "{", "var", "a", "=", "2", ";", "}", "}">>,
     \* { var a = a; }
     owninitializer |->
        <<"{", "var", "a", "=", "a", ";", "}">>,
     \* 1;  print 2;
     exprstmt |->
        <<"1", ";", "print", "2", ";">>,
     \* var a;  print a = 1;
     printassign |->
        <<"var", "a", ";", "print", "a", "=", "1", ";">>,
     \* print "a" + "b";
     strings |->
        <<"print", "\"a\"", "+", "\"b\"", ";">>,
     \* print 1;  print ;  print 2;
     parseerror |->
        <<"print", "1", ";", "print", ";", "print", "2", ";">>,
     \* print 1;  var = 3;  print 2;
     missingname |->
        <<"print", "1", ";", "var", "=", "3", ";", "print", "2", ";">>]

Programs ==
    UNION {{q \in [1 .. n -> DOMAIN Fragments] :
               \A i, j \in 1 .. n : q[i] = q[j] => i = j} :
           n \in 0 .. MaxFragments}

\* the statements of the program, as Parser::parse returns them
RECURSIVE Statements(_)
Statements(q) ==
    IF q = <<>> THEN <<>>
    ELSE IF Head(q) \in DOMAIN Fragments
    THEN Fragments[Head(q)] \o Statements(Tail(q))
    ELSE Then(Parse(Tokens(Sources[Head(q)])), LAMBDA parsed :
             [i \in 1 .. Len(parsed) |-> parsed[i].v])
         \o Statements(Tail(q))

ast == Statements(prog)

----------------------------------------------------------------------------
(* run() of main.rs: the resolver pass, then the interpreter pass, each    *)
(* one apply_visitor loop over the statements.                             *)

Init ==
    /\ prog \in Programs
    /\ interp = InterpreterNew
    /\ resolver = [scopes |-> ResolverNew.scopes,
                   current_function |-> ResolverNew.current_function,
                   current_class |-> ResolverNew.current_class]
    /\ pc = "resolve"
    /\ idx = 1
    /\ clean = TRUE
    /\ panicked = FALSE
    /\ res = OkNone
    /\ ops = NoOps
    /\ vm = InitVm

\* the Resolver with the interpreter it holds a reference to
ResolverView ==
    [scopes |-> resolver.scopes,
     current_function |-> resolver.current_function,
     current_class |-> resolver.current_class,
     locals |-> interp.locals,
     bind |-> interp.bind]

\* one iteration of apply_visitor(&mut resolver, &ast)
ResolveStmt ==
    /\ pc = "resolve" /\ ~panicked /\ idx <= Len(ast)
    /\ \E a \in {RAcceptStmt(ast[idx], <<idx>>, ResolverView)} :
       LET st == [interp EXCEPT !.locals = a.z.locals, !.bind = a.z.bind]
       IN /\ resolver' = [scopes |-> a.z.scopes,
                          current_function |-> a.z.current_function,
                          current_class |-> a.z.current_class]
          /\ panicked' = (a.r = "Panic")
          /\ interp' = IF a.r = "Err" THEN Println(st, "resolve", a.msg)
                       ELSE st
          /\ clean' = IF a.r = "Err" THEN FALSE ELSE clean
    /\ idx' = idx + 1
    /\ UNCHANGED <<prog, pc, res, ops, vm>>

\* the resolver pass is over: run() returns when it was not clean
ResolveReturn ==
    /\ pc = "resolve" /\ ~panicked /\ idx > Len(ast)
    /\ pc' = IF clean THEN "interpret" ELSE "done"
    /\ idx' = 1
    /\ clean' = TRUE
    /\ UNCHANGED <<interp, resolver, prog, panicked, res, ops, vm>>

\* one iteration of apply_visitor(&mut interpreter, &ast)
InterpretStmt ==
    /\ pc = "interpret" /\ ~panicked /\ idx <= Len(ast)
    /\ \E a \in {IAcceptStmt(ast[idx], <<idx>>,
                            [interp EXCEPT !.ghost.top = idx])} :
          /\ panicked' = (a.r = "Panic")
          /\ interp' = IF a.r = "Err" THEN Println(a.st, "runtime", a.msg)
                       ELSE IF a.r = "Ok" /\ a.some
                       THEN Println(a.st, "carrier", a.v)
                       ELSE a.st
          /\ clean' = IF a.r = "Err" THEN FALSE ELSE clean
    /\ idx' = idx + 1
    /\ UNCHANGED <<resolver, prog, pc, res, ops, vm>>

\* the interpreter pass is over
InterpretReturn ==
    /\ pc = "interpret" /\ ~panicked /\ idx > Len(ast)
    /\ pc' = "done"
    /\ UNCHANGED <<interp, resolver, prog, idx, clean, panicked, res, ops, vm>>

Next ==
    \/ ResolveStmt
    \/ ResolveReturn
    \/ InterpretStmt
    \/ InterpretReturn

Spec == Init /\ [][Next]_vars

----------------------------------------------------------------------------
(* The two backends on the same source: run() of main.rs from the parser   *)
(* on, and VM::interpret followed by the loop of VM::run, one instruction  *)
(* at a time; or VM::run alone on a chunk handed to the VM.                *)

VMInit ==
    /\ \/ /\ prog \in {<<name>> : name \in DOMAIN Sources}
          /\ pc = "parse"
          /\ vm = InitVm
       \/ /\ prog = <<>>
          /\ pc = "done"
          /\ \E chunk \in
                {<<[op |-> "Constant", arg |-> Num(1)],
                   [op |-> "Constant", arg |-> Num(2)],
                   [op |-> "Constant", arg |-> Num(3)],
                   [op |-> "SetLocal", arg |-> 1],
                   [op |-> "Pop", arg |-> 0],
                   [op |-> "GetLocal", arg |-> 1],
                   [op |-> "Print", arg |-> 0],
                   [op |-> "Return", arg |-> 0]>>,
                 <<[op |-> "Constant", arg |-> Num(1)],
                   [op |-> "True", arg |-> 0],
                   [op |-> "Negate", arg |-> 0],
                   [op |-> "Return", arg |-> 0]>>,
                 <<[op |-> "Nil", arg |-> 0],
                   [op |-> "Not", arg |-> 0],
                   [op |-> "JumpIfFalse", arg |-> 2],
                   [op |-> "Constant", arg |-> Num(1)],
                   [op |-> "Print", arg |-> 0],
                   [op |-> "Constant", arg |-> Num(0)],
                   [op |-> "Not", arg |-> 0],
                   [op |-> "Print", arg |-> 0],
                   [op |-> "Return", arg |-> 0]>>} :
                vm = [InitVm EXCEPT !.chunk = chunk, !.state = "run"]
    /\ interp = InterpreterNew
    /\ resolver = [scopes |-> ResolverNew.scopes,
                   current_function |-> ResolverNew.current_function,
                   current_class |-> ResolverNew.current_class]
    /\ idx = 1
    /\ clean = TRUE
    /\ panicked = FALSE
    /\ res = <<>>
    /\ ops = NoOps

\* run: the parser; the first error of the list is printed and run returns
VMParse ==
    /\ pc = "parse"
    /\ \E ast1 \in {Parse(Tokens(Sources[prog[1]]))} :
          /\ res' = ast1
          /\ IF \A i \in 1 .. Len(ast1) : ast1[i].ok
             THEN pc' = "resolve" /\ UNCHANGED interp
             ELSE /\ pc' = "done"
                  /\ interp' = Println(interp, "parse",
                        ast1[CHOOSE i \in 1 .. Len(ast1) :
                                /\ ~ast1[i].ok
                                /\ \A j \in 1 .. i - 1 : ast1[j].ok].msg)
    /\ UNCHANGED <<resolver, prog, idx, clean, panicked, ops, vm>>

\* VM::interpret up to the call of run
VMInterpret ==
    /\ vm.state = "init" /\ prog # <<>>
    /\ \E compi \in {Compile(Tokens(Sources[prog[1]]))} :
          vm' = [vm EXCEPT
                   !.compi = [marks |-> compi.marks, scopes |-> compi.scopes,
                              refs |-> compi.refs, out |-> compi.out],
                   !.chunk = IF compi.had_error THEN @ ELSE compi.code,
                   !.state = IF compi.had_error THEN "CompileError"
                             ELSE "run"]
    /\ UNCHANGED <<interp, res, panicked, ops, prog, pc, idx, resolver, clean>>

\* one iteration of the loop of VM::run
VMRun ==
    /\ vm.state = "run"
    /\ vm' = Run(vm)
    /\ UNCHANGED <<interp, res, panicked, ops, prog, pc, idx, resolver, clean>>

VMNext ==
    \/ VMParse
    \/ ResolveStmt
    \/ ResolveReturn
    \/ InterpretStmt
    \/ InterpretReturn
    \/ VMInterpret
    \/ VMRun

VMSpec == VMInit /\ [][VMNext]_vars

----------------------------------------------------------------------------
(* Properties of the environment operations.                               *)

\* The frame get_symbol_at(ops.pos, _) is asked about (0: no such frame).
AskedFrame == Ancestor(interp, interp.environments, ops.pos)

\* C6: get_symbol_at(k, name), k within the chain, returns Ok(Some(v)) when
\* the k-th enclosing frame binds name to v and Ok(None) when that frame
\* does not bind name although another frame of the chain does.
C6_GetAtNoneWhenUnbound ==
    (ops.last = "get" /\ ops.pos >= 0 /\ AskedFrame # 0) =>
        IF ContainsKey(interp, AskedFrame, ops.name)
        THEN res = OkSome(Retrieve(interp, AskedFrame, ops.name))
        ELSE BoundInChain(interp, interp.environments, ops.name) => res = OkNone

C8_EnvironmentLifecycle ==
    ~panicked =>
        /\ interp.counter = 1 + ops.new - ops.drop
        /\ interp.locals = EmptyTable
        /\ ops.new = ops.drop =>
              /\ interp.environments = 1
              /\ interp.frames[1].enclosing = 0
              /\ interp.counter = 1

C8_Witness ==
    /\ ~panicked
    /\ ops.new = 2 /\ ops.drop = 2 /\ ops.last = "drop"
    /\ interp.environments = 1 /\ interp.counter = 1

\* C9: drop_environment as the first call on a fresh interpreter completes
\* without panicking and leaves the locals table empty.
C9_DropOnFreshCompletes ==
    (ops.last = "drop" /\ ops.n = 1) =>
        (~panicked /\ interp.locals = EmptyTable)

----------------------------------------------------------------------------
(* Properties of the interpreter run by the driver.                        *)

\* C1: whenever visit_block has returned - the block completed, yielded a
\* Return carrier or ended in a runtime error - the current environment is
\* the frame that was current before the block was entered.
C1_BlockRestoresEnvironment ==
    \A b \in interp.ghost.blocks : b.same

\* C2: whenever a read or a store of a name without an entry in the locals
\* table asks for globals(), the frame it gets is the root of the current
\* chain, the one without an enclosing frame.
C2_GlobalsIsRoot ==
    \A g \in interp.ghost.globals : g.root

\* C3: the visit of a top-level statement by the interpreter always
\* returns; a runtime error in a sub-expression never ends it in a panic.
C3_NoPanicFromRuntimeError ==
    ~(pc = "interpret" /\ panicked)

\* C4: the diagnostic line of a runtime error is the last line the program
\* writes: no Print output and no further diagnostic follows it.
C4_AbortAfterRuntimeError ==
    \A i \in 1 .. Len(interp.stdout) :
        interp.stdout[i].ch = "runtime" => i = Len(interp.stdout)

\* C5: whenever the interpreter evaluates an expression the resolver gave
\* a depth, the frame reached at that depth from the current environment
\* is a frame of the scope the resolver found the name in.
C5_DepthReachesDeclaringScope ==
    \A r \in interp.ghost.reads : r.got = r.want

C12_SetRebindsUpdatedInstance ==
    \A s \in interp.ghost.sets : s.bound /\ s.others /\ s.kept

\* C13: every `super.m` evaluated in a method of a class gives the m
\* declared by the class named as its superclass, bound to the `this` of
\* the running method.
C13_SuperDispatchesToSuperclass ==
    \A s \in interp.ghost.supers :
        /\ ast[s.method[1]].t = "ClassDecl"
        /\ ast[s.method[1]].name = ast[s.from[1]].superclass.name
        /\ s.self = s.recv

\* `super.m()` in a nested block of Mid.t ran on an instance of Leaf (which
\* has its own m) and on an instance of Mid, and Base.m read the field n of
\* each receiver: 7 and 5 were printed.
C13_Witness ==
    /\ \E s \in interp.ghost.supers :
          s.self.k = "Inst" /\ s.self.class.name = "Leaf"
    /\ \E s \in interp.ghost.supers :
          s.self.k = "Inst" /\ s.self.class.name = "Mid"
    /\ \E i, j \in 1 .. Len(interp.stdout) :
          /\ i < j
          /\ interp.stdout[i] = [v |-> Num(7), ch |-> "print"]
          /\ interp.stdout[j] = [v |-> Num(5), ch |-> "print"]

\* C14: get_field gives the instance's own field when it has one of that
\* name, otherwise the method of the class chain bound to the instance,
\* otherwise an error; the instance stored by a Set differs from the one
\* read only in the field written, and no other binding changes.
C14_FieldsBeforeMethods ==
    /\ \A g \in interp.ghost.gets :
          g.res = IF g.hasField THEN "field"
                  ELSE IF g.hasMethod THEN "method" ELSE "error"
    /\ \A s \in interp.ghost.sets : s.only /\ s.others

\* A field named like an inherited method was written and read back, the
\* method was still found on another instance, and an unknown name failed.
C14_Witness ==
    /\ \E g \in interp.ghost.gets :
          g.hasField /\ g.hasMethod /\ g.res = "field"
    /\ \E g \in interp.ghost.gets :
          ~g.hasField /\ g.hasMethod /\ g.res = "method"
    /\ \E g \in interp.ghost.gets :
          ~g.hasField /\ ~g.hasMethod /\ g.res = "error"
    /\ \E s \in interp.ghost.sets : s.name = "a" /\ s.field = "g"
    /\ \E i \in 1 .. Len(interp.stdout) :
          interp.stdout[i] = [v |-> Num(1), ch |-> "print"]

\* C15: `or` gives its left value without visiting the right operand when
\* the left value is true, `and` when it is false or nil; otherwise each
\* visits the right operand and gives its value; every operand is visited
\* at most once (the counter of the program `shortcircuit` counts them).
C15_LogicalShortCircuits ==
    /\ \A g \in interp.ghost.logicals :
          LET short == IF g.operator = "Or" THEN g.left = BoolV(TRUE)
                       ELSE g.left \in {BoolV(FALSE), Nil}
          IN /\ g.right = ~short
             /\ short => g.v = g.left
    /\ (prog # <<>> /\ prog[1] = "shortcircuit") =>
          LET expected == <<BoolV(TRUE), Num(1), Num(7), Num(3), Nil, Num(4),
                            BoolV(FALSE), Num(5), Str("s"), Num(7)>>
          IN \A i \in 1 .. Len(interp.stdout) :
                (i <= Len(expected) /\ interp.stdout[1].ch = "print") =>
                   /\ interp.stdout[i].ch = "print"
                   /\ interp.stdout[i].v = expected[i]

\* The program `shortcircuit` has printed all ten lines: each of the five
\* cases of the claim was evaluated.
C15_Witness ==
    /\ prog # <<>> /\ prog[1] = "shortcircuit"
    /\ Len(interp.stdout) >= 10
    /\ \E g \in interp.ghost.logicals :
          g.operator = "Or" /\ g.left = Num(1) /\ g.right /\ g.v = Num(7)
    /\ \E g \in interp.ghost.logicals :
          g.operator = "And" /\ g.left = Nil /\ ~g.right /\ g.v = Nil

\* C16: `==` and `!=` give a Bool for every pair of values, never an error:
\* for numbers, strings, booleans and nil, `==` gives true exactly when the
\* two values are the same value, and `!=` the opposite.
C16_EqualityIsTotal ==
    \A q \in interp.ghost.equalities :
        /\ q.x.r = "Ok"
        /\ ({q.left, q.right} \subseteq {"Num", "Str", "Bool", "Nil"}) =>
              q.x.v = BoolV((q.operator = "EqualEqual") = q.same)

\* C17: every statement in which the resolver finds a read of a local
\* variable inside its own initializer is reported with the message
\* "Can't read local variable in its own initializer.", and no other
\* statement is.
C17_OwnInitializerReported ==
    LET own == {q \in DOMAIN interp.bind : interp.bind[q].k = "own"}
        reported == {i \in 1 .. Len(interp.stdout) :
                       /\ interp.stdout[i].ch = "resolve"
                       /\ interp.stdout[i].v =
                            "Can't read local variable in its own initializer."}
    IN Cardinality({q[1] : q \in own}) = Cardinality(reported)

\* C18: every statement in which the resolver finds a return outside a
\* function is reported with "Can't return from top-level code.", every one
\* in which it finds a return with a value in an initializer with "Can't
\* return a value from an initializer.", and no other statement is; the
\* top-level `return 1;` of the program `returnleak` is reported.
C18_ReturnErrorsReported ==
    LET marked(k) == {q[1] : q \in {x \in DOMAIN interp.bind :
                                       interp.bind[x].k = k}}
        reported(m) == {i \in 1 .. Len(interp.stdout) :
                          /\ interp.stdout[i].ch = "resolve"
                          /\ interp.stdout[i].v = m}
    IN /\ Cardinality(marked("toplevel"))
            = Cardinality(reported("Can't return from top-level code."))
       /\ Cardinality(marked("initvalue"))
            = Cardinality(reported("Can't return a value from an initializer."))
       /\ (prog # <<>> /\ prog[1] = "returnleak" /\ pc = "done") =>
             reported("Can't return from top-level code.") # {}

\* C19: of every While, each run of the body and each exit on a condition
\* that is not true follows its own evaluation of the condition, and no
\* evaluation follows a body that yielded a Return carrier or an error; the
\* While yields the carrier or the error of its body (the program
\* `whilecarrier` counts the evaluations and prints 2, 2, the error, 3).
C19_WhileStopsOnCarrier ==
    /\ \A q \in DOMAIN interp.ghost.whiles :
          LET w == interp.ghost.whiles[q]
          IN w.conds = w.bodies + w.falses
    /\ (prog # <<>> /\ prog[1] = "whilecarrier") =>
          LET expected == <<[v |-> Num(2), ch |-> "print"],
                            [v |-> Num(2), ch |-> "print"],
                            [v |-> "Undefined variable", ch |-> "runtime"],
                            [v |-> Num(3), ch |-> "print"]>>
          IN \A i \in 1 .. Len(interp.stdout) :
                (i <= Len(expected) /\ interp.stdout[1].ch = "print") =>
                   /\ interp.stdout[i].ch = expected[i].ch
                   /\ interp.stdout[i].v = expected[i].v

\* The program `whilecarrier` has run: a loop left by a Return carrier, a
\* loop left by an error, and the loop of `while` left by a false condition.
C19_Witness ==
    /\ prog = <<"whilecarrier", "while">>
    /\ pc = "done"
    /\ Len(interp.stdout) >= 4
    /\ \E q \in DOMAIN interp.ghost.whiles :
          interp.ghost.whiles[q] = [conds |-> 2, bodies |-> 2, falses |-> 0]
    /\ \E q \in DOMAIN interp.ghost.whiles :
          interp.ghost.whiles[q] = [conds |-> 3, bodies |-> 2, falses |-> 1]

\* C20: the for loops of the program `forloop`, as the parser produces
\* them, give the same Print outputs, the same value of the variable they
\* assign, the same Return carrier and the same names bound afterwards as
\* the block/while statements written out in the program `fordesugared`.
C20_ForEqualsDesugaring ==
    (prog = <<"forloop", "fordesugared">> /\ pc = "done" /\ ~panicked) =>
        /\ Len(interp.stdout) = 8
        /\ \A i \in 1 .. 4 : interp.stdout[i] = interp.stdout[i + 4]
        /\ Retrieve(interp, 1, "s") = Retrieve(interp, 1, "s2")
        /\ DOMAIN interp.frames[1].symbol_table
              = {"first", "s", "first2", "s2"}
        /\ interp.environments = 1

\* Both programs have run to their end, the loops having printed 0 and 1
\* and the functions having returned 5.
C20_Witness ==
    /\ prog = <<"forloop", "fordesugared">> /\ pc = "done" /\ ~panicked
    /\ Len(interp.stdout) = 8
    /\ interp.stdout[2] = [v |-> Num(1), ch |-> "print"]
    /\ interp.stdout[8] = [v |-> Num(5), ch |-> "print"]

----------------------------------------------------------------------------
(* Properties of the resolver's state between top-level statements.        *)

\* C29: after the resolver finished a top-level statement, successfully or
\* with an error, its scope stack holds the global scope only and
\* current_function and current_class are both None.
C29_ResolverStateRestored ==
    ~panicked =>
        /\ Len(resolver.scopes) = 1
        /\ resolver.current_function = "None"
        /\ resolver.current_class = "None"

\* C30: an instance keeps its identity across bindings: the field written
\* through `this` in a method invoked as `i.m()` is read by `i.f` after the
\* call, and the field written through the variable j is read through the
\* variable i holding the same instance (the program `identity` prints 1
\* and 2).
C30_InstanceIdentityKept ==
    (prog = <<"identity">> /\ pc = "done" /\ ~panicked) =>
        /\ Len(interp.stdout) = 2
        /\ \A n \in 1 .. 2 : /\ interp.stdout[n].ch = "print"
                             /\ interp.stdout[n].v = Num(n)

----------------------------------------------------------------------------
(* Properties of the parser's error handling and of the bytecode backend.  *)

\* C21: after reporting a parse error the parser continues: the list that
\* parse() returns for `print 1; print ; print 2;` and for
\* `print 1; var = 3; print 2;` holds the statement before the erroneous
\* one, the error entry and the statement after it.
C21_ParserContinuesAfterError ==
    (prog \in {<<"parseerror">>, <<"missingname">>} /\ pc # "parse") =>
        /\ Len(res) = 3
        /\ res[1].ok /\ res[1].v = PrintStmt(Literal(Num(1)))
        /\ ~res[2].ok
        /\ res[3].ok /\ res[3].v = PrintStmt(Literal(Num(2)))

\* C22: once the VM has detected a runtime error (stack underflow or an
\* operand type error in a binary operation, a non-number operand of
\* Negate, GetGlobal or SetGlobal of an undefined name) the operand stack
\* is empty, run() has returned RuntimeError and no instruction was read
\* after the error.
C22_RuntimeErrorHalts ==
    vm.errors > 0 =>
        /\ vm.stack = <<>>
        /\ vm.state = "RuntimeError"
        /\ vm.late = 0

\* C23: every Not instruction executed popped a value v and pushed
\* Bool(true) exactly when v is Nil or Bool(false), and Bool(false) for
\* every other value.
C23_NotPushesFalsiness ==
    \A i \in 1 .. Len(vm.nots) :
        vm.nots[i].pushed = BoolV(vm.nots[i].v \in {Nil, BoolV(FALSE)})

C27_SetLocalStoresTop ==
    \A i \in 1 .. Len(vm.sets) :
        vm.sets[i].after =
            [vm.sets[i].before EXCEPT ![vm.sets[i].slot + 1] = vm.sets[i].top]

====
